---- MODULE Spec2Model ----
(***************************************************************************)
(* Model of the training loop, the log truncation and the persistence of   *)
(* qubit_network.model.Optimizer (src/src/qubit_network/model.py).         *)
(*                                                                         *)
(* Number representations                                                  *)
(*  - A fidelity is an integer code on a grid that is fine near 1.0: the   *)
(*    code f > 0 stands for the float 1 - (One - f) * 1e-11 and the code 0 *)
(*    stands for the float 0.0.  The code only ever tests a fidelity with  *)
(*    `== 1`, `abs(1 - f) < eps` and `== 0`; those tests are exact on the  *)
(*    grid.                                                                *)
(*  - The learning rate and the decay rate are rationals <<num, den>>.     *)
(*  - The parameter vector J is identified by an integer: 0 is the         *)
(*    all-zero vector (the value of a log placeholder row), and every      *)
(*    gradient step yields the next value.                                 *)
(*  - A generated data set is the record [gen, epoch, size]: the number of *)
(*    the generate_training_states call that produced it, the epoch index  *)
(*    that was current at that call (-1 before the first epoch) and its    *)
(*    number of rows.                                                      *)
(***************************************************************************)
EXTENDS Integers, Sequences, FiniteSets, TLC

\* ---------------------------------------------------------------- bounds
MaxEpochs == 4
MaxTrainSize == 3
MaxBatchSize == 2

\* ------------------------------------------------------- program constants
\* the fidelity 1.0 (model.py:850 `== 1`, model.py:677 `1 - fids`)
One == 1000
\* eps = 1e-10 of _get_meaningful_history, in grid units of 1e-11
Eps == 10

\* -------------------------------------------------------------- inputs
\* mean fidelities the compiled test function can return: 0.0, the largest
\* value that is not within eps of 1, a value within eps of 1 that is not 1,
\* and 1.0
FidelityValues == {0, One - Eps, One - (Eps \div 2), One}
InitialLearningRates == {<<1, 10>>}
DecayRates == {<<1, 2>>}
TestDatasetSizes == {2}
\* initial parameter vectors (np.random.randn is nonzero with probability 1)
InitialValues == {1}
FileExts == {".pickle"}

\* Python's None for the two log arrays (no fidelity code is negative)
NoneArr == <<-1>>
NoData == [gen |-> 0, epoch |-> -1, size |-> 0]
NothingRecorded == [fidelities |-> {}, parameters |-> {}]

\* no QubitNetwork object / no momentum updates exist
NoNet == [status |-> "none"]
NoUpdates == [status |-> "none"]
\* no QubitNetworkModel object exists / no fidelity is being computed
NoModel == [status |-> "none"]
NoFidelity == [kind |-> "none"]
\* the target gates: None or a gate
TargetGates == {"None", "sigmax"}
\* self.free_parameters of the model
FreeParameters == <<"J1", "J2">>
\* the QubitNetworkModel of the Optimizer: it has drawn its initial values
\* and the Optimizer has been given a target gate
TrainedModel ==
    [status |-> "constructed", exc |-> "none", initial_values |-> <<1, -1>>,
     parameters |-> <<1, -1>>, target_gate |-> "sigmax",
     args |-> [initial_values |-> "None", target_gate |-> "None"],
     returned |-> "none", given |-> "sigmax"]

Abs(x) == IF x < 0 THEN -x ELSE x
SetMax(S) == CHOOSE m \in S : \A x \in S : x <= m
RatEq(a, b) == a[1] * b[2] = b[1] * a[2]
Zeros(n) == [i \in 1..n |-> 0]

VARIABLES
    pc,              \* statement the optimizer is about to execute
    exc,             \* exception the last call raised to its caller
    last_call,       \* the method of the optimizer that was called last
    args,            \* arguments of the current/last call of run
    hyperpars,       \* Optimizer.hyperpars
    learning_rate,   \* Optimizer.vars['learning_rate']
    parameters,      \* Optimizer.vars['parameters'] (net.parameters)
    train_inputs,    \* vars['train_inputs'] / vars['train_outputs']
    test_inputs,     \* vars['test_inputs'] / vars['test_outputs']
    compiled,        \* train_model and test_model are not None
    log,             \* Optimizer.log
    minibatch_index, \* loop variable of train_epoch
    fidelity,        \* local variable of test_epoch
    file,            \* the pickle file: << >> or <<record>>
    phase,           \* what was last done with the optimizer object
    loaded,          \* the record Optimizer.load read: << >> or <<record>>
    gen_count,       \* number of generate_training_states calls so far
    steps,           \* history: the train_model calls of this run
    evals,           \* history: the test_model calls of this run
    recorded,        \* history: the epochs whose log entries were written
    interrupted_at,  \* history: statement at which KeyboardInterrupt came
    net,             \* a QubitNetwork object (QubitNetwork.py)
    sgd,             \* the shared variables of the gradient updates
    model,           \* a QubitNetworkModel object (model.py), Optimizer.net
    fid              \* the kets of one fidelity computation and its results

vars == <<pc, exc, last_call, args, hyperpars, learning_rate, parameters,
          train_inputs, test_inputs, compiled, log, minibatch_index, fidelity, file, phase,
          loaded, gen_count, steps, evals, recorded, interrupted_at,
          net, sgd, model, fid>>

\* ------------------------------------------------------- pure functions

\* a batch count that rounds up, so that a last, shorter batch is used
NTrainBatches_Ceil(N, B) == (N + B - 1) \div B

\* train_epoch: number of gradient steps of one epoch
NTrainBatches(N, B) == N \div B

\* _compile_model: rows (0-based) of the slice [index*B : (index+1)*B] of a
\* training array with N rows (a Python slice is clipped to the array)
BatchRows(index, N, B) == {r \in 0..(N - 1) : index * B <= r /\ r < (index + 1) * B}

\* _run: the value given to the learning rate after epoch n_epoch
DecayedLearningRate(lr0, decay, n_epoch) ==
    <<lr0[1] * decay[2], lr0[2] * (decay[2] + decay[1] * n_epoch)>>

\* a convergence test with the tolerance of the log truncation
FidelityIsOne_Tolerant(f) == Abs(One - f) < Eps

\* _run: `if self.log['fidelities'][n_epoch] == 1`
FidelityIsOne(f) == f = One

\* train_model: the updates applied to the parameters by one call
ApplyUpdates(p) == p + 1

\* ------------------------------------------------------------ construction

HyperparSets ==
    [n_epochs : 1..MaxEpochs,
     train_dataset_size : 1..MaxTrainSize,
     test_dataset_size : TestDatasetSizes,
     batch_size : 1..MaxBatchSize,
     initial_learning_rate : InitialLearningRates,
     decay_rate : DecayRates]

\* Optimizer.__init__ with a target gate, on a QubitNetworkModel whose
\* parameters hold its initial values
Init ==
    /\ pc = "idle"
    /\ exc = "none"
    /\ last_call = "__init__"
    /\ args = [save_parameters |-> TRUE, save_after |-> FALSE]
    /\ hyperpars \in HyperparSets
    /\ learning_rate = hyperpars.initial_learning_rate
    /\ parameters \in InitialValues
    /\ train_inputs = NoData
    /\ test_inputs = NoData
    /\ compiled = FALSE
    /\ log = [fidelities |-> NoneArr, parameters |-> NoneArr, n_epoch |-> -1]
    /\ minibatch_index = 0
    /\ fidelity = 0
    /\ file = << >>
    /\ phase = "constructed"
    /\ loaded = << >>
    /\ gen_count = 0
    /\ steps = << >>
    /\ evals = << >>
    /\ recorded = NothingRecorded
    /\ interrupted_at = "none"
    /\ net = NoNet
    /\ sgd = NoUpdates
    /\ model = TrainedModel
    /\ fid = NoFidelity

\* ------------------------------------------------------------- Optimizer.run

\* the statements of run that lie inside `try: self._run(args)`
InTry == {"refill_test", "compile", "log_fidelities", "log_parameters",
          "for_epoch", "refill_train", "train_step", "test_model",
          "write_parameters", "write_fidelity", "update_fig", "check_fidelity",
          "set_learning_rate"}

\* the statements of run outside the try block
OutsideTry == {"run_args", "run_save"}

Running == pc \in InTry \cup OutsideTry

\* _run is called as self._run(args) with args = locals(), a non-empty dict:
\* its save_parameters parameter is that dict, which is truthy
RunSaveParameters(a) == TRUE

\* model.generate_training_states: the exception of
\* `assert self.target_gate is not None`
GenerateExc ==
    IF model.target_gate = "None" THEN "AssertionError" ELSE "none"

\* model.generate_training_states(num_states): a new data set
Generate(num_states) ==
    [gen |-> gen_count + 1, epoch |-> log.n_epoch, size |-> num_states]

\* run(save_parameters, len_shown_history, save_after) is called
Run ==
    /\ pc = "idle"
    /\ phase = "constructed"
    /\ \E sp \in BOOLEAN, sa \in BOOLEAN :
           args' = [save_parameters |-> sp, save_after |-> sa]
    /\ pc' = "run_args"
    /\ exc' = "none"
    /\ last_call' = "run"
    /\ steps' = << >>
    /\ evals' = << >>
    /\ recorded' = NothingRecorded
    /\ interrupted_at' = "none"
    /\ UNCHANGED <<hyperpars, learning_rate, parameters, train_inputs,
                   test_inputs, compiled, log, minibatch_index, fidelity,
                   file, phase, loaded, gen_count>>
    /\ UNCHANGED <<net, sgd, model, fid>>

\* run: args = locals(); try:
RunArgs ==
    /\ pc = "run_args"
    /\ pc' = "refill_test"
    /\ UNCHANGED <<exc, args, hyperpars, learning_rate, parameters,
                   train_inputs, test_inputs, compiled, log, minibatch_index,
                   fidelity, file, phase, loaded, gen_count, steps, evals,
                   interrupted_at,
                   recorded,
                   last_call>>
    /\ UNCHANGED <<net, sgd, model, fid>>

\* a _run that fills the training set together with the test set, before
\* the model is compiled
RefillTestData_WithTraining ==
    /\ pc = "refill_test"
    /\ test_inputs' = Generate(hyperpars.test_dataset_size)
    /\ train_inputs' = [gen |-> gen_count + 2, epoch |-> log.n_epoch,
                        size |-> hyperpars.train_dataset_size]
    /\ gen_count' = gen_count + 2
    /\ pc' = "compile"
    /\ UNCHANGED <<exc, args, hyperpars, learning_rate, parameters,
                   compiled, log, minibatch_index, fidelity,
                   file, phase, loaded, steps, evals, interrupted_at,
                   recorded, last_call>>
    /\ UNCHANGED <<net, sgd, model, fid>>

\* a refill_test_data inside a try block that treats the missing target gate
\* like an abort: the run goes on to its end without an exception
RefillTestData_Swallowed ==
    /\ pc = "refill_test"
    /\ IF GenerateExc = "none"
       THEN /\ test_inputs' = Generate(hyperpars.test_dataset_size)
            /\ gen_count' = gen_count + 1
            /\ pc' = "compile"
       ELSE /\ pc' = "run_save"
            /\ UNCHANGED <<test_inputs, gen_count>>
    /\ UNCHANGED <<exc, args, hyperpars, learning_rate, parameters,
                   train_inputs, compiled, log, minibatch_index, fidelity,
                   file, phase, loaded, steps, evals, interrupted_at,
                   recorded,
                   last_call>>
    /\ UNCHANGED <<net, sgd, model, fid>>

\* _run: self.refill_test_data()
RefillTestData ==
    /\ pc = "refill_test"
    /\ IF GenerateExc = "none"
       THEN /\ test_inputs' = Generate(hyperpars.test_dataset_size)
            /\ gen_count' = gen_count + 1
            /\ pc' = "compile"
            /\ UNCHANGED <<exc, phase>>
       ELSE /\ exc' = GenerateExc
            /\ pc' = "idle"
            /\ phase' = "ran"
            /\ UNCHANGED <<test_inputs, gen_count>>
    /\ UNCHANGED <<args, hyperpars, learning_rate, parameters,
                   train_inputs, compiled, log, minibatch_index, fidelity,
                   file, loaded, steps, evals, interrupted_at,
                   recorded,
                   last_call>>
    /\ UNCHANGED <<net, sgd, model, fid>>

\* _run: self._compile_model()
CompileModel ==
    /\ pc = "compile"
    /\ compiled' = TRUE
    /\ pc' = "log_fidelities"
    /\ UNCHANGED <<exc, args, hyperpars, learning_rate, parameters,
                   train_inputs, test_inputs, log, minibatch_index, fidelity,
                   file, phase, loaded, gen_count, steps, evals,
                   interrupted_at,
                   recorded,
                   last_call>>
    /\ UNCHANGED <<net, sgd, model, fid>>

\* _run: self.log['fidelities'] = np.zeros(n_epochs)
InitLogFidelities ==
    /\ pc = "log_fidelities"
    /\ log' = [log EXCEPT !.fidelities = Zeros(hyperpars.n_epochs)]
    /\ pc' = IF RunSaveParameters(args) THEN "log_parameters" ELSE "for_epoch"
    /\ UNCHANGED <<exc, args, hyperpars, learning_rate, parameters,
                   train_inputs, test_inputs, compiled, minibatch_index,
                   fidelity, file, phase, loaded, gen_count, steps, evals,
                   interrupted_at,
                   recorded,
                   last_call>>
    /\ UNCHANGED <<net, sgd, model, fid>>

\* _run: self.log['parameters'] = np.zeros((n_epochs, len(parameters)))
InitLogParameters ==
    /\ pc = "log_parameters"
    /\ log' = [log EXCEPT !.parameters = Zeros(hyperpars.n_epochs)]
    /\ pc' = "for_epoch"
    /\ UNCHANGED <<exc, args, hyperpars, learning_rate, parameters,
                   train_inputs, test_inputs, compiled, minibatch_index,
                   fidelity, file, phase, loaded, gen_count, steps, evals,
                   interrupted_at,
                   recorded,
                   last_call>>
    /\ UNCHANGED <<net, sgd, model, fid>>

\* an epoch loop over range(n_epochs - 1)
ForEpoch_OneShort ==
    /\ pc = "for_epoch"
    /\ IF log.n_epoch + 2 < hyperpars.n_epochs
       THEN /\ log' = [log EXCEPT !.n_epoch = log.n_epoch + 1]
            /\ pc' = "refill_train"
       ELSE /\ pc' = "run_save"
            /\ UNCHANGED log
    /\ UNCHANGED <<exc, args, hyperpars, learning_rate, parameters,
                   train_inputs, test_inputs, compiled, minibatch_index,
                   fidelity, file, phase, loaded, gen_count, steps, evals,
                   interrupted_at, recorded, last_call>>
    /\ UNCHANGED <<net, sgd, model, fid>>

\* _run: for n_epoch in range(n_epochs): self.log['n_epoch'] = n_epoch
\* (the loop ends, and _run returns, when the range is exhausted)
ForEpoch ==
    /\ pc = "for_epoch"
    /\ IF log.n_epoch + 1 < hyperpars.n_epochs
       THEN /\ log' = [log EXCEPT !.n_epoch = log.n_epoch + 1]
            /\ pc' = "refill_train"
       ELSE /\ pc' = "run_save"
            /\ UNCHANGED log
    /\ UNCHANGED <<exc, args, hyperpars, learning_rate, parameters,
                   train_inputs, test_inputs, compiled, minibatch_index,
                   fidelity, file, phase, loaded, gen_count, steps, evals,
                   interrupted_at,
                   recorded,
                   last_call>>
    /\ UNCHANGED <<net, sgd, model, fid>>

\* a train_epoch that generates the training set in the first epoch only
\* and reuses it afterwards
RefillTrainingData_Cached ==
    /\ pc = "refill_train"
    /\ IF log.n_epoch = 0
       THEN /\ train_inputs' = Generate(hyperpars.train_dataset_size)
            /\ gen_count' = gen_count + 1
       ELSE UNCHANGED <<train_inputs, gen_count>>
    /\ minibatch_index' = 0
    /\ pc' = "train_step"
    /\ UNCHANGED <<exc, args, hyperpars, learning_rate, parameters,
                   test_inputs, compiled, log, fidelity, file, phase, loaded,
                   steps, evals, interrupted_at, recorded, last_call>>
    /\ UNCHANGED <<net, sgd, model, fid>>

\* a train_epoch that also regenerates the test set at every epoch
RefillTrainingData_AndTest ==
    /\ pc = "refill_train"
    /\ train_inputs' = Generate(hyperpars.train_dataset_size)
    /\ test_inputs' = [gen |-> gen_count + 2, epoch |-> log.n_epoch,
                       size |-> hyperpars.test_dataset_size]
    /\ gen_count' = gen_count + 2
    /\ minibatch_index' = 0
    /\ pc' = "train_step"
    /\ UNCHANGED <<exc, args, hyperpars, learning_rate, parameters,
                   compiled, log, fidelity, file, phase, loaded,
                   steps, evals, interrupted_at, recorded,
                   last_call>>
    /\ UNCHANGED <<net, sgd, model, fid>>

\* train_epoch: self.refill_training_data()
RefillTrainingData ==
    /\ pc = "refill_train"
    /\ IF GenerateExc = "none"
       THEN /\ train_inputs' = Generate(hyperpars.train_dataset_size)
            /\ gen_count' = gen_count + 1
            /\ minibatch_index' = 0
            /\ pc' = "train_step"
            /\ UNCHANGED <<exc, phase>>
       ELSE /\ exc' = GenerateExc
            /\ pc' = "idle"
            /\ phase' = "ran"
            /\ UNCHANGED <<train_inputs, gen_count, minibatch_index>>
    /\ UNCHANGED <<args, hyperpars, learning_rate, parameters,
                   test_inputs, compiled, log, fidelity, file, loaded,
                   steps, evals, interrupted_at,
                   recorded,
                   last_call>>
    /\ UNCHANGED <<net, sgd, model, fid>>

\* a train_epoch that feeds the mini-batches last to first
TrainStep_Descending ==
    /\ pc = "train_step"
    /\ IF minibatch_index < NTrainBatches(hyperpars.train_dataset_size,
                                          hyperpars.batch_size)
       THEN /\ parameters' = ApplyUpdates(parameters)
            /\ steps' = Append(steps,
                   [epoch |-> log.n_epoch,
                    index |-> NTrainBatches(hyperpars.train_dataset_size,
                                            hyperpars.batch_size)
                              - 1 - minibatch_index,
                    learning_rate |-> learning_rate,
                    after |-> ApplyUpdates(parameters),
                    data |-> train_inputs,
                    rows |-> BatchRows(NTrainBatches(hyperpars.train_dataset_size,
                                                     hyperpars.batch_size)
                                       - 1 - minibatch_index,
                                       train_inputs.size,
                                       hyperpars.batch_size)])
            /\ minibatch_index' = minibatch_index + 1
            /\ pc' = "train_step"
       ELSE /\ pc' = "test_model"
            /\ UNCHANGED <<parameters, steps, minibatch_index>>
    /\ UNCHANGED <<exc, args, hyperpars, learning_rate, train_inputs,
                   test_inputs, compiled, log, fidelity, file, phase, loaded,
                   gen_count, evals, interrupted_at, recorded, last_call>>
    /\ UNCHANGED <<net, sgd, model, fid>>

\* train_epoch: for minibatch_index in range(n_train_batches):
\*                  self.train_model(minibatch_index)
TrainStep ==
    /\ pc = "train_step"
    /\ IF minibatch_index < NTrainBatches(hyperpars.train_dataset_size,
                                          hyperpars.batch_size)
       THEN /\ parameters' = ApplyUpdates(parameters)
            /\ steps' = Append(steps,
                   [epoch |-> log.n_epoch,
                    index |-> minibatch_index,
                    learning_rate |-> learning_rate,
                    after |-> ApplyUpdates(parameters),
                    data |-> train_inputs,
                    rows |-> BatchRows(minibatch_index, train_inputs.size,
                                       hyperpars.batch_size)])
            /\ minibatch_index' = minibatch_index + 1
            /\ pc' = "train_step"
       ELSE /\ pc' = "test_model"
            /\ UNCHANGED <<parameters, steps, minibatch_index>>
    /\ UNCHANGED <<exc, args, hyperpars, learning_rate, train_inputs,
                   test_inputs, compiled, log, fidelity, file, phase, loaded,
                   gen_count, evals, interrupted_at,
                   recorded,
                   last_call>>
    /\ UNCHANGED <<net, sgd, model, fid>>

\* test_epoch: fidelity = self.test_model()
TestModel ==
    /\ pc = "test_model"
    /\ \E f \in FidelityValues :
           /\ fidelity' = f
           /\ evals' = Append(evals,
                  [epoch |-> log.n_epoch, data |-> test_inputs,
                   parameters |-> parameters, fidelity |-> f])
    /\ pc' = IF RunSaveParameters(args) THEN "write_parameters"
                                        ELSE "write_fidelity"
    /\ UNCHANGED <<exc, args, hyperpars, learning_rate, parameters,
                   train_inputs, test_inputs, compiled, log, minibatch_index,
                   file, phase, loaded, gen_count, steps, interrupted_at,
                   recorded,
                   last_call>>
    /\ UNCHANGED <<net, sgd, model, fid>>

\* test_epoch: self.log['parameters'][n_epoch] = parameters.get_value()
WriteParameters ==
    /\ pc = "write_parameters"
    /\ log' = [log EXCEPT !.parameters[log.n_epoch + 1] = parameters]
    /\ recorded' = [recorded EXCEPT
                       !.parameters = recorded.parameters \cup {log.n_epoch}]
    /\ pc' = "write_fidelity"
    /\ UNCHANGED <<exc, args, hyperpars, learning_rate, parameters,
                   train_inputs, test_inputs, compiled, minibatch_index,
                   fidelity, file, phase, loaded, gen_count, steps, evals,
                   interrupted_at,
                   last_call>>
    /\ UNCHANGED <<net, sgd, model, fid>>

\* test_epoch: self.log['fidelities'][n_epoch] = fidelity
WriteFidelity ==
    /\ pc = "write_fidelity"
    /\ log' = [log EXCEPT !.fidelities[log.n_epoch + 1] = fidelity]
    /\ recorded' = [recorded EXCEPT
                       !.fidelities = recorded.fidelities \cup {log.n_epoch}]
    /\ pc' = "update_fig"
    /\ UNCHANGED <<exc, args, hyperpars, learning_rate, parameters,
                   train_inputs, test_inputs, compiled, minibatch_index,
                   fidelity, file, phase, loaded, gen_count, steps, evals,
                   interrupted_at,
                   last_call>>
    /\ UNCHANGED <<net, sgd, model, fid>>

\* _run: self._update_fig(len_shown_history) (reads the log, draws)
UpdateFig ==
    /\ pc = "update_fig"
    /\ pc' = "check_fidelity"
    /\ UNCHANGED <<exc, args, hyperpars, learning_rate, parameters,
                   train_inputs, test_inputs, compiled, log, minibatch_index,
                   fidelity, file, phase, loaded, gen_count, steps, evals,
                   interrupted_at,
                   recorded,
                   last_call>>
    /\ UNCHANGED <<net, sgd, model, fid>>

\* a convergence check that reports fidelity 1 without leaving the loop
CheckFidelity_NoBreak ==
    /\ pc = "check_fidelity"
    /\ pc' = "set_learning_rate"
    /\ UNCHANGED <<exc, args, hyperpars, learning_rate, parameters,
                   train_inputs, test_inputs, compiled, log, minibatch_index,
                   fidelity, file, phase, loaded, gen_count, steps, evals,
                   interrupted_at, recorded,
                   last_call>>
    /\ UNCHANGED <<net, sgd, model, fid>>

\* _run: if self.log['fidelities'][n_epoch] == 1: break
CheckFidelity ==
    /\ pc = "check_fidelity"
    /\ pc' = IF FidelityIsOne(log.fidelities[log.n_epoch + 1])
             THEN "run_save" ELSE "set_learning_rate"
    /\ UNCHANGED <<exc, args, hyperpars, learning_rate, parameters,
                   train_inputs, test_inputs, compiled, log, minibatch_index,
                   fidelity, file, phase, loaded, gen_count, steps, evals,
                   interrupted_at,
                   recorded,
                   last_call>>
    /\ UNCHANGED <<net, sgd, model, fid>>

\* _run: self.vars['learning_rate'].set_value(lr0 / (1 + decay * n_epoch))
SetLearningRate ==
    /\ pc = "set_learning_rate"
    /\ learning_rate' = DecayedLearningRate(hyperpars.initial_learning_rate,
                                            hyperpars.decay_rate, log.n_epoch)
    /\ pc' = "for_epoch"
    /\ UNCHANGED <<exc, args, hyperpars, parameters, train_inputs,
                   test_inputs, compiled, log, minibatch_index, fidelity,
                   file, phase, loaded, gen_count, steps, evals,
                   interrupted_at,
                   recorded,
                   last_call>>
    /\ UNCHANGED <<net, sgd, model, fid>>

\* run: if save_after is not None: self._save_results()
\* (Optimizer has no attribute _save_results)
RunSave ==
    /\ pc = "run_save"
    /\ exc' = IF args.save_after THEN "AttributeError" ELSE "none"
    /\ pc' = "idle"
    /\ phase' = "ran"
    /\ UNCHANGED <<args, hyperpars, learning_rate, parameters, train_inputs,
                   test_inputs, compiled, log, minibatch_index, fidelity,
                   file, loaded, gen_count, steps, evals, interrupted_at,
                   recorded,
                   last_call>>
    /\ UNCHANGED <<net, sgd, model, fid>>

\* an abort that is held back while mini-batches are being processed: the
\* epoch goes on with its test evaluation
InterruptTarget_Deferred(p) ==
    IF p = "train_step" THEN "test_model"
    ELSE IF p \in InTry THEN "run_save" ELSE "idle"

\* where control goes when KeyboardInterrupt is raised at statement p of
\* run: `except KeyboardInterrupt: pass` covers the try block only
InterruptTarget(p) == IF p \in InTry THEN "run_save" ELSE "idle"
InterruptExc(p) == IF p \in InTry THEN "none" ELSE "KeyboardInterrupt"

\* the user aborts: KeyboardInterrupt is raised at the current statement
KeyboardInterrupt ==
    /\ Running
    /\ interrupted_at = "none"
    /\ interrupted_at' = pc
    /\ pc' = InterruptTarget(pc)
    /\ exc' = InterruptExc(pc)
    /\ phase' = IF InterruptTarget(pc) = "idle" THEN "ran" ELSE phase
    /\ UNCHANGED <<args, hyperpars, learning_rate, parameters, train_inputs,
                   test_inputs, compiled, log, minibatch_index, fidelity,
                   file, loaded, gen_count, steps, evals,
                   recorded,
                   last_call>>
    /\ UNCHANGED <<net, sgd, model, fid>>

\* ------------------------------------------------------------- persistence

\* _get_meaningful_history: np.abs(1 - fids) < eps
NearOne(f) == Abs(One - f) < Eps

\* np.diff(b).nonzero()[0] of a boolean array b: the positions whose element
\* differs from the next one (1-based position i is numpy index i - 1)
DiffNonzero(b) == {i \in 1..(Len(b) - 1) : b[i] # b[i + 1]}

\* _get_meaningful_history: end_useful_log (a numpy index, 0-based)
EndUsefulLog(fids) ==
    LET near == DiffNonzero([i \in 1..Len(fids) |-> NearOne(fids[i])])
        zero == DiffNonzero([i \in 1..Len(fids) |-> fids[i] = 0])
    IN  IF near # {} THEN SetMax(near) - 1
        ELSE IF zero # {} THEN SetMax(zero) - 1
        ELSE Len(fids)

\* the Python slice a[:end] for 0 <= end <= len(a)
SliceTo(a, end) == SubSeq(a, 1, end)

\* _get_meaningful_history of a log whose fidelities are not None
GetMeaningfulHistory(l) ==
    [fidelities |-> SliceTo(l.fidelities, EndUsefulLog(l.fidelities)),
     parameters |-> IF l.parameters # NoneArr
                    THEN SliceTo(l.parameters, EndUsefulLog(l.fidelities))
                    ELSE NoneArr]

\* save_results: the exception it raises, "none" when it writes the file
SaveResultsExc(l, ext) ==
    IF l.fidelities = NoneArr THEN "TypeError"
    ELSE IF l.parameters = NoneArr THEN "KeyError"
    ELSE IF GetMeaningfulHistory(l).parameters = << >> THEN "IndexError"
    ELSE IF ext # ".pickle" THEN "ValueError"
    ELSE "none"

\* save_results: the record it pickles
SavedRecord(l) ==
    [final_interactions |->
         GetMeaningfulHistory(l).parameters[Len(GetMeaningfulHistory(l).parameters)],
     hyperparameters |-> hyperpars,
     log |-> GetMeaningfulHistory(l)]

\* save_results(file) on an optimizer that is not running
SaveResults ==
    /\ pc = "idle"
    /\ phase \in {"constructed", "ran", "loaded"}
    /\ last_call' = "save_results"
    /\ \E ext \in FileExts :
         /\ exc' = SaveResultsExc(log, ext)
         /\ IF SaveResultsExc(log, ext) = "none"
            THEN /\ file' = <<SavedRecord(log)>>
                 /\ phase' = IF phase = "loaded" THEN "resaved" ELSE "saved"
            ELSE UNCHANGED <<file, phase>>
    /\ UNCHANGED <<pc, args, hyperpars, learning_rate, parameters,
                   train_inputs, test_inputs, compiled, log, minibatch_index,
                   fidelity, loaded, gen_count, steps, evals, interrupted_at,
                   recorded>>
    /\ UNCHANGED <<net, sgd, model, fid>>

\* Optimizer.load(file) of a record written for a network without ancillae:
\* a new network whose parameters are final_interactions, a new Optimizer
\* with the saved hyperparameters, and optimizer.log = opt_data['log']
Load ==
    /\ pc = "idle"
    /\ phase = "saved"
    /\ file # << >>
    /\ last_call' = "load"
    /\ \E ext \in FileExts :
         IF ext # ".pickle"
         THEN /\ exc' = "NotImplementedError"
              /\ UNCHANGED <<hyperpars, learning_rate, parameters,
                             train_inputs, test_inputs, compiled, log,
                             minibatch_index, fidelity, phase, loaded, steps,
                             evals, recorded, interrupted_at>>
         ELSE /\ exc' = "none"
              /\ hyperpars' = file[1].hyperparameters
              /\ learning_rate' = file[1].hyperparameters.initial_learning_rate
              /\ parameters' = file[1].final_interactions
              /\ train_inputs' = NoData
              /\ test_inputs' = NoData
              /\ compiled' = FALSE
              /\ log' = [fidelities |-> file[1].log.fidelities,
                         parameters |-> file[1].log.parameters,
                         n_epoch |-> -1]
              /\ minibatch_index' = 0
              /\ fidelity' = 0
              /\ phase' = "loaded"
              /\ loaded' = file
              /\ steps' = << >>
              /\ evals' = << >>
              /\ recorded' = NothingRecorded
              /\ interrupted_at' = "none"
    /\ UNCHANGED <<pc, args, file, gen_count>>
    /\ UNCHANGED <<net, sgd, model, fid>>

Next ==
    \/ Run
    \/ RunArgs
    \/ RefillTestData
    \/ CompileModel
    \/ InitLogFidelities
    \/ InitLogParameters
    \/ ForEpoch
    \/ RefillTrainingData
    \/ TrainStep
    \/ TestModel
    \/ WriteParameters
    \/ WriteFidelity
    \/ UpdateFig
    \/ CheckFidelity
    \/ SetLearningRate
    \/ RunSave
    \/ KeyboardInterrupt
    \/ SaveResults
    \/ Load

Spec == Init /\ [][Next]_vars

\* the statements of run, executed by the interpreter one after the other
RunStep ==
    \/ RunArgs
    \/ RefillTestData
    \/ CompileModel
    \/ InitLogFidelities
    \/ InitLogParameters
    \/ ForEpoch
    \/ RefillTrainingData
    \/ TrainStep
    \/ TestModel
    \/ WriteParameters
    \/ WriteFidelity
    \/ UpdateFig
    \/ CheckFidelity
    \/ SetLearningRate
    \/ RunSave

\* a call of run that has started keeps executing: the interpreter always
\* executes the next statement of the running method
FairSpec == Spec /\ WF_vars(RunStep)

\* the variables of the Optimizer
optvars == <<pc, exc, last_call, args, hyperpars, learning_rate, parameters,
             train_inputs, test_inputs, compiled, log, minibatch_index,
             fidelity, file, phase, loaded, gen_count, steps, evals, recorded,
             interrupted_at>>

\* no Optimizer has been constructed
NoOptimizer ==
    /\ pc = "idle"
    /\ exc = "none"
    /\ last_call = "none"
    /\ args = [save_parameters |-> TRUE, save_after |-> FALSE]
    /\ hyperpars = [n_epochs |-> 0]
    /\ learning_rate = <<0, 1>>
    /\ parameters = 0
    /\ train_inputs = NoData
    /\ test_inputs = NoData
    /\ compiled = FALSE
    /\ log = [fidelities |-> NoneArr, parameters |-> NoneArr, n_epoch |-> -1]
    /\ minibatch_index = 0
    /\ fidelity = 0
    /\ file = << >>
    /\ phase = "none"
    /\ loaded = << >>
    /\ gen_count = 0
    /\ steps = << >>
    /\ evals = << >>
    /\ recorded = NothingRecorded
    /\ interrupted_at = "none"

\* ------------------------------------------------ the momentum updates
\* (model.py, _gradient_updates_momentum and the train_model function that
\* applies its updates).  Parameters, steps and rates are exact rationals
\* <<numerator, denominator>> with a positive denominator, in lowest terms.

RECURSIVE GCD(_, _)
GCD(a, b) == IF b = 0 THEN a ELSE GCD(b, a % b)

RatNorm(r) ==
    LET g == GCD(Abs(r[1]), r[2])
    IN  IF r[1] = 0 THEN <<0, 1>> ELSE <<r[1] \div g, r[2] \div g>>
RatAdd(a, b) == RatNorm(<<a[1] * b[2] + b[1] * a[2], a[2] * b[2]>>)
RatMul(a, b) == RatNorm(<<a[1] * b[1], a[2] * b[2]>>)
RatLess(a, b) == a[1] * b[2] < b[1] * a[2]

\* number of train_model calls followed
MaxTrainSteps == 3

\* momentum coefficients: 0.5 is the one _make_updates passes; 1 and -0.5
\* are outside the range the function accepts
MomentumValues == {<<0, 1>>, <<1, 2>>, <<1, 1>>, <<-1, 2>>}
LearningRateValues == {<<1, 10>>, <<1, 5>>}
ParameterValues == {<<0, 1>>, <<1, 1>>}
\* values of the gradient of the mean fidelity at a training step
GradValues == {<<-1, 1>>, <<0, 1>>, <<1, 1>>}

\* a step that follows the gradient downhill
MomentumStep_Descent(momentum, previous_step, lr, grad) ==
    RatAdd(RatMul(momentum, previous_step),
           RatMul(<<-1, 1>>, RatMul(lr, grad)))

\* _gradient_updates_momentum:
\*     step = momentum * previous_step + learning_rate * grad
MomentumStep(momentum, previous_step, lr, grad) ==
    RatAdd(RatMul(momentum, previous_step), RatMul(lr, grad))

\* _gradient_updates_momentum(params, grad, learning_rate, momentum): the
\* shared variables behind the updates it returns, or the failed assertion
GradientUpdatesMomentum(params, lr, momentum) ==
    IF ~(RatLess(momentum, <<1, 1>>) /\ ~RatLess(momentum, <<0, 1>>))
    THEN [status |-> "failed", exc |-> "AssertionError",
          momentum |-> momentum, learning_rate |-> lr, parameters |-> params,
          previous_step |-> <<0, 1>>, n_steps |-> 0, grad |-> <<0, 1>>,
          before |-> [parameters |-> params, previous_step |-> <<0, 1>>,
                      learning_rate |-> lr]]
    ELSE [status |-> "built", exc |-> "none",
          momentum |-> momentum, learning_rate |-> lr, parameters |-> params,
          previous_step |-> RatMul(params, <<0, 1>>),
          n_steps |-> 0, grad |-> <<0, 1>>,
          before |-> [parameters |-> params, previous_step |-> <<0, 1>>,
                      learning_rate |-> lr]]

MomentumInit ==
    /\ NoOptimizer
    /\ net = NoNet
    /\ model = NoModel
    /\ fid = NoFidelity
    /\ \E p0 \in ParameterValues, lr \in LearningRateValues,
          m \in MomentumValues :
           sgd = GradientUpdatesMomentum(p0, lr, m)

\* train_model(index): theano applies the updates [(previous_step, step),
\* (param, param + step)] together, each computed from the old values
TrainModel ==
    /\ sgd.status = "built"
    /\ sgd.n_steps < MaxTrainSteps
    /\ \E g \in GradValues :
         LET step == MomentumStep(sgd.momentum, sgd.previous_step,
                                  sgd.learning_rate, g)
         IN  sgd' = [sgd EXCEPT
                        !.previous_step = step,
                        !.parameters = RatAdd(sgd.parameters, step),
                        !.n_steps = sgd.n_steps + 1,
                        !.grad = g,
                        !.before = [parameters |-> sgd.parameters,
                                    previous_step |-> sgd.previous_step,
                                    learning_rate |-> sgd.learning_rate]]
    /\ UNCHANGED <<optvars, net, model, fid>>

\* vars['learning_rate'].set_value(...): the learning rate is a shared
\* variable, read by the updates when they are applied
SetValueLearningRate ==
    /\ sgd.status = "built"
    /\ \E lr \in LearningRateValues \ {sgd.learning_rate} :
           sgd' = [sgd EXCEPT !.learning_rate = lr]
    /\ UNCHANGED <<optvars, net, model, fid>>

MomentumNext ==
    \/ TrainModel
    \/ SetValueLearningRate

MomentumSpec == MomentumInit /\ [][MomentumNext]_vars

\* ------------------------------------------------ the adadelta updates
\* (model.py, _gradient_updates_adadelta and the train_model function that
\* applies its updates).  The gradient and the steps are measured in units
\* of sqrt(eps) = 1e-3 and their running mean squares in units of
\* eps = 1e-6, as exact rationals.  A step is the square root of a rational:
\* it is kept as its sign and its square.

\* number of train_model calls followed
MaxAdadeltaSteps == 2

\* eps = 1e-6 (the unit) and rho = 0.95
AdadeltaEps == <<1, 1>>
Rho == <<19, 20>>
OneMinusRho == <<1, 20>>

\* values of the gradient of the mean fidelity at a training step
AdadeltaGradValues == {<<g, 1>> : g \in -3..3}

Sign(r) == IF r[1] > 0 THEN 1 ELSE IF r[1] < 0 THEN -1 ELSE 0

\* rho * mean + (1 - rho) * square
RunningMean(mean, square) ==
    RatAdd(RatMul(Rho, mean), RatMul(OneMinusRho, square))

\* params_step = -T.sqrt(rparams2 + eps) / T.sqrt(rgrads2 + eps) * zgrads,
\* as its sign and its square
ParamsStep(rparams2, rgrads2, zgrads) ==
    [sign |-> -Sign(zgrads),
     square |-> RatMul(RatMul(RatAdd(rparams2, AdadeltaEps),
                              <<RatAdd(rgrads2, AdadeltaEps)[2],
                                RatAdd(rgrads2, AdadeltaEps)[1]>>),
                       RatMul(zgrads, zgrads))]

\* _gradient_updates_adadelta(params, grads): the shared variables behind
\* the updates it returns.  parameters is the initial value and the steps
\* subtracted from it so far
GradientUpdatesAdadelta(params) ==
    [status |-> "built", exc |-> "none",
     parameters |-> [start |-> params, steps |-> << >>],
     zgrads |-> RatMul(params, <<0, 1>>),
     rparams2 |-> RatMul(params, <<0, 1>>),
     rgrads2 |-> RatMul(params, <<0, 1>>),
     n_steps |-> 0, grad |-> <<0, 1>>,
     params_step |-> [sign |-> 0, square |-> <<0, 1>>],
     before |-> [rparams2 |-> <<0, 1>>, rgrads2 |-> <<0, 1>>,
                 zgrads |-> <<0, 1>>]]

AdadeltaInit ==
    /\ NoOptimizer
    /\ net = NoNet
    /\ model = NoModel
    /\ fid = NoFidelity
    /\ \E p0 \in ParameterValues : sgd = GradientUpdatesAdadelta(p0)

\* train_model(index) with the adadelta updates: theano applies
\* (zgrads, grads), (rgrads2, ...), (rparams2, ...) and
\* (params, params - params_step) together, each computed from the old
\* values of the shared variables and the gradient g of this mini-batch
AdadeltaTrainModel ==
    /\ sgd.status = "built"
    /\ sgd.n_steps < MaxAdadeltaSteps
    /\ \E g \in AdadeltaGradValues :
         LET params_step == ParamsStep(sgd.rparams2, sgd.rgrads2, sgd.zgrads)
         IN  sgd' = [sgd EXCEPT
                        !.zgrads = g,
                        !.rgrads2 = RunningMean(sgd.rgrads2, RatMul(g, g)),
                        !.rparams2 = RunningMean(sgd.rparams2,
                                                 params_step.square),
                        !.parameters.steps = Append(@, params_step),
                        !.n_steps = sgd.n_steps + 1,
                        !.grad = g,
                        !.params_step = params_step,
                        !.before = [rparams2 |-> sgd.rparams2,
                                    rgrads2 |-> sgd.rgrads2,
                                    zgrads |-> sgd.zgrads]]
    /\ UNCHANGED <<optvars, net, model, fid>>

AdadeltaNext == AdadeltaTrainModel

AdadeltaSpec == AdadeltaInit /\ [][AdadeltaNext]_vars

\* ------------------------------------------------------- QubitNetwork
\* (QubitNetwork.py).  An interaction, a (qubits, directions) tuple such as
\* ((1, 2), 'xx'), is identified by a number: every interaction has its own
\* basis matrix build_H_factor(interaction), so a Hamiltonian is given by the
\* coefficient of each interaction's basis matrix.  A symbol of a topology
\* is identified by the rank of its name in lexicographic order (1 for 'a',
\* 2 for 'b', ...).  A dict is the sequence of its <<key, value>> items in
\* insertion order.  A J-vector is a sequence of integers.

MaxInteractions == 3

Interactions == 1..MaxInteractions
Symbols == {1, 2}
\* values of the entries of J
JValues == {1, 2}
\* lengths of a J given to the constructor
JLengths == {1, 2, 3}

\* the value None of the arguments net_topology and J (an empty dict and an
\* empty list are not among the inputs)
NoTopology == << >>
NoJ == << >>

RECURSIVE SeqSet(_)
SeqSet(q) == IF q = << >> THEN {} ELSE {Head(q)} \cup SeqSet(Tail(q))

\* the sequences of distinct elements of S with 1..n entries
DistinctSeqs(S, n) ==
    {q \in UNION {[1..k -> S] : k \in 1..n} :
        \A i, j \in 1..Len(q) : i # j => q[i] # q[j]}

\* the net_topology dicts
Topologies ==
    {d \in UNION {[1..k -> Interactions \X Symbols] : k \in 1..MaxInteractions} :
        \A i, j \in 1..Len(d) : i # j => d[i][1] # d[j][1]}

\* a direction of the ('all', directions) form: direction t is the one of
\* interaction t, and 0 is a string whose length is neither 1 nor 2
Directions == Interactions \cup {0}

\* the values of the interactions argument: 'all', a list, a value that is
\* neither 'all' nor a tuple nor a list ("invalid"), a tuple ('all',
\* directions) whose directions are in list, and a tuple whose first entry
\* is not 'all' ("tuple_other")
InteractionArgs ==
    {[kind |-> "all", list |-> << >>], [kind |-> "invalid", list |-> << >>],
     [kind |-> "tuple_other", list |-> << >>]}
    \cup {[kind |-> "list", list |-> q] :
              q \in DistinctSeqs(Interactions, MaxInteractions)}
    \cup {[kind |-> "all_directions", list |-> q] :
              q \in DistinctSeqs(Directions, 2)}

\* the J vectors with n entries
JVectors(n) == [1..n -> JValues]

\* dict.keys(), dict.values() and d[key]
Keys(d) == [i \in 1..Len(d) |-> d[i][1]]
Values(d) == [i \in 1..Len(d) |-> d[i][2]]
Lookup(d, key) == d[CHOOSE i \in 1..Len(d) : d[i][1] = key][2]

\* the list q without its entry at position i (del q[i - 1])
DelAt(q, i) == [k \in 1..(Len(q) - 1) |-> IF k < i THEN q[k] ELSE q[k + 1]]

\* list.index(x) + 1, for x in the list
IndexOf(q, x) == CHOOSE i \in 1..Len(q) : q[i] = x /\ \A k \in 1..(i - 1) : q[k] # x

SetMin(S) == CHOOSE m \in S : \A x \in S : m <= x

\* sorted(S)
RECURSIVE Sorted(_)
Sorted(S) == IF S = {} THEN << >>
             ELSE <<SetMin(S)>> \o Sorted(S \ {SetMin(S)})

\* the symbols of a topology in order of first appearance
SortedSymbols_InsertionOrder(d) ==
    LET first == {i \in 1..Len(d) : \A k \in 1..(i - 1) : d[k][2] # d[i][2]}
    IN  [n \in 1..Cardinality(first) |->
            d[CHOOSE i \in first :
                  Cardinality({k \in first : k < i}) = n - 1][2]]

\* sorted(set(self.net_topology.values()))
SortedSymbols(d) == Sorted(SeqSet(Values(d)))

\* interactions='all': every self-interaction and pairwise interaction
AllInteractions == [i \in 1..MaxInteractions |-> i]

\* len(set(net_topology.values()))
NumSymbols(d) == Cardinality(SeqSet(Values(d)))

\* parse_interactions: the interactions appended for the directions q of
\* ('all', directions); a direction of another length than 1 or 2 adds none
RECURSIVE InteractionsOfDirections(_)
InteractionsOfDirections(q) ==
    IF q = << >> THEN << >>
    ELSE (IF Head(q) \in Interactions THEN <<Head(q)>> ELSE << >>)
         \o InteractionsOfDirections(Tail(q))

\* parse_interactions: self.interactions and self.num_interactions, or the
\* exception raised
ParseInteractions(interactions, net_topology) ==
    IF net_topology # NoTopology
    THEN [exc |-> "none", interactions |-> Keys(net_topology),
          num_interactions |-> NumSymbols(net_topology)]
    ELSE IF interactions.kind = "all"
    THEN [exc |-> "none", interactions |-> AllInteractions,
          num_interactions |-> Len(AllInteractions)]
    ELSE IF interactions.kind = "all_directions"
    THEN [exc |-> "none",
          interactions |-> InteractionsOfDirections(interactions.list),
          num_interactions |->
              Len(InteractionsOfDirections(interactions.list))]
    ELSE IF interactions.kind = "tuple_other"
    THEN [exc |-> "none", interactions |-> << >>, num_interactions |-> 0]
    ELSE IF interactions.kind = "list"
    THEN [exc |-> "none", interactions |-> interactions.list,
          num_interactions |-> Len(interactions.list)]
    ELSE [exc |-> "ValueError", interactions |-> << >>,
          num_interactions |-> 0]

\* a constructor call that raised exception e
FailedNet(e) ==
    [status |-> "failed", exc |-> e, net_topology |-> NoTopology,
     net_topology_symbols |-> << >>, interactions |-> << >>,
     num_interactions |-> 0, J |-> << >>]

\* number of entries np.random.randn is asked for when J is None
RandnLength(interactions, net_topology, J) ==
    IF J # NoJ \/ ParseInteractions(interactions, net_topology).exc # "none"
    THEN 0
    ELSE IF net_topology = NoTopology
    THEN ParseInteractions(interactions, net_topology).num_interactions
    ELSE NumSymbols(net_topology)

\* QubitNetwork.__init__(interactions, net_topology, J), where randn is the
\* vector np.random.randn returns when J is None
QubitNetworkInit(interactions, net_topology, J, randn) ==
    LET parsed == ParseInteractions(interactions, net_topology)
    IN  IF parsed.exc # "none" THEN FailedNet(parsed.exc)
        ELSE IF J # NoJ /\ net_topology # NoTopology
                /\ Len(J) # NumSymbols(net_topology)
        THEN FailedNet("ValueError")
        ELSE [status |-> "constructed", exc |-> "none",
              net_topology |-> net_topology,
              net_topology_symbols |->
                  IF net_topology # NoTopology
                  THEN SortedSymbols(net_topology) ELSE << >>,
              interactions |-> parsed.interactions,
              num_interactions |-> parsed.num_interactions,
              J |-> IF J = NoJ THEN randn ELSE J]

\* the network n together with a note of the arguments its constructor was
\* called with
WithArgs(n, a) ==
    [x \in DOMAIN n \cup {"args"} |-> IF x = "args" THEN a ELSE n[x]]

\* the J arguments: None or a vector
JArgs == {NoJ} \cup UNION {JVectors(n) : n \in JLengths}

NetInit ==
    /\ NoOptimizer
    /\ sgd = NoUpdates
    /\ model = NoModel
    /\ fid = NoFidelity
    /\ \E a \in {<<i, NoTopology>> : i \in InteractionArgs}
                \cup {<<[kind |-> k, list |-> << >>], d>> :
                          k \in {"all", "invalid"}, d \in Topologies} :
         \E J \in JArgs :
           \E randn \in JVectors(RandnLength(a[1], a[2], J)) :
               net = WithArgs(QubitNetworkInit(a[1], a[2], J, randn),
                              [interactions |-> a[1].kind,
                               net_topology |-> a[2] # NoTopology,
                               J |-> J # NoJ])

\* a factor that keeps only the last interaction of its symbol (`=` in the
\* place of `+=`)
TopologyFactor_LastOnly(d, symb) ==
    [t \in Interactions |->
        IF \E i \in 1..Len(d) :
               /\ d[i][1] = t
               /\ d[i][2] = symb
               /\ \A k \in (i + 1)..Len(d) : d[k][2] # symb
        THEN 1 ELSE 0]

\* build_H_factors: factors[idx] of a symbol, the sum of the basis matrices
\* of the interactions whose label is the symbol
TopologyFactor(d, symb) ==
    [t \in Interactions |->
        Cardinality({i \in 1..Len(d) : d[i][1] = t /\ d[i][2] = symb})]

\* build_H_factors: the array factors
Factors(n) ==
    IF n.net_topology = NoTopology
    THEN [idx \in 1..n.num_interactions |->
            [t \in Interactions |->
                IF idx <= Len(n.interactions) /\ n.interactions[idx] = t
                THEN 1 ELSE 0]]
    ELSE [idx \in 1..n.num_interactions |->
            IF idx <= Len(SortedSymbols(n.net_topology))
            THEN TopologyFactor(n.net_topology,
                                SortedSymbols(n.net_topology)[idx])
            ELSE [t \in Interactions |-> 0]]

\* tensordot(J, factors, axes=1): the coefficient of interaction t
RECURSIVE TensorDot(_, _, _)
TensorDot(J, factors, t) ==
    IF J = << >> THEN 0
    ELSE J[Len(J)] * factors[Len(J)][t]
         + TensorDot(SubSeq(J, 1, Len(J) - 1), factors, t)

\* build_H_factors(symbolic_result=False): the Hamiltonian, or the exception
\* of tensordot when J and factors differ in length
BuildHFactors(n) ==
    IF Len(n.J) # n.num_interactions
    THEN [exc |-> "ValueError", H |-> [t \in Interactions |-> 0]]
    ELSE [exc |-> "none",
          H |-> [t \in Interactions |-> TensorDot(n.J, Factors(n), t)]]

\* the interactions of dict d whose label is symb, in dict order
RECURSIVE InteractionsOf(_, _)
InteractionsOf(d, symb) ==
    IF d = << >> THEN << >>
    ELSE (IF d[1][2] = symb THEN <<d[1][1]>> ELSE << >>)
         \o InteractionsOf(Tail(d), symb)

\* J_index_to_interaction(index), for index + 1 = idx in 1..len(J)
JIndexToInteraction(n, idx) ==
    IF n.net_topology = NoTopology THEN <<n.interactions[idx]>>
    ELSE InteractionsOf(n.net_topology, SortedSymbols(n.net_topology)[idx])

\* get_interactions_with_Js(): the items of the returned OrderedDict
GetInteractionsWithJs(n) ==
    IF n.net_topology = NoTopology
    THEN [i \in 1..(IF Len(n.interactions) < Len(n.J)
                    THEN Len(n.interactions) ELSE Len(n.J)) |->
             <<n.interactions[i], n.J[i]>>]
    ELSE [idx \in 1..Len(n.net_topology_symbols) |->
             <<InteractionsOf(n.net_topology, n.net_topology_symbols[idx]),
               n.J[idx]>>]

\* len(interaction[1]): 1 for a self-interaction, 2 for a pairwise one; the
\* interactions with an odd number are the self-interactions
InteractionLen(t) == IF t % 2 = 1 THEN 1 ELSE 2

\* get_interactions_with_Js: one pass of the inner loop over an interaction
\* of length len that carries the symbol, from renormalize = r
RenormalizeStep(r, len) ==
    IF len = 2 /\ r = 2 THEN 0
    ELSE IF len = 1 /\ r = 4 THEN 0
    ELSE IF r = 0 THEN (IF len = 2 THEN 4 ELSE 2)
    ELSE r

\* get_interactions_with_Js: renormalize after the inner loop has passed the
\* interactions q of one symbol, from renormalize = r
RECURSIVE Renormalize(_, _)
Renormalize(q, r) ==
    IF q = << >> THEN r
    ELSE Renormalize(Tail(q), RenormalizeStep(r, InteractionLen(Head(q))))

\* get_interactions_with_Js(renormalize_parameters=True): the items of the
\* returned OrderedDict
GetInteractionsWithJsRenormalized(n) ==
    IF n.net_topology = NoTopology
    THEN [i \in 1..(IF Len(n.interactions) < Len(n.J)
                    THEN Len(n.interactions) ELSE Len(n.J)) |->
             <<n.interactions[i],
               (IF InteractionLen(n.interactions[i]) = 2 THEN 4 ELSE 2)
                   * n.J[i]>>]
    ELSE [idx \in 1..Len(n.net_topology_symbols) |->
             <<InteractionsOf(n.net_topology, n.net_topology_symbols[idx]),
               n.J[idx]
                   * Renormalize(InteractionsOf(n.net_topology,
                                                n.net_topology_symbols[idx]),
                                 0)>>]

\* remove_interaction(t): the network afterwards.  `del Js[i]` on the numpy
\* array J.get_value() raises ValueError (array elements cannot be deleted)
RemoveInteractionResult(n, t) ==
    IF n.net_topology = NoTopology
    THEN IF t \notin SeqSet(n.interactions)
         THEN [n EXCEPT !.exc = "ValueError"]
         ELSE [n EXCEPT !.interactions = DelAt(@, IndexOf(@, t)),
                        !.exc = "ValueError"]
    ELSE IF t \notin SeqSet(Keys(n.net_topology))
         THEN [n EXCEPT !.exc = "KeyError"]
         ELSE IF Cardinality({i \in 1..Len(n.net_topology) :
                                 n.net_topology[i][2]
                                   = Lookup(n.net_topology, t)}) > 1
         THEN [n EXCEPT !.net_topology =
                            DelAt(@, IndexOf(Keys(@), t)),
                        !.exc = "none"]
         ELSE [n EXCEPT !.exc = "ValueError"]

\* remove_interaction(interaction_tuple) is called
RemoveInteraction ==
    /\ net.status = "constructed"
    /\ \E t \in Interactions : net' = RemoveInteractionResult(net, t)
    /\ UNCHANGED <<optvars, sgd, model, fid>>

\* J.set_value(v): training gives the entries of J new values
JSetValue ==
    /\ net.status = "constructed"
    /\ \E v \in JVectors(Len(net.J)) \ {net.J} :
           net' = [net EXCEPT !.J = v, !.exc = "none"]
    /\ UNCHANGED <<optvars, sgd, model, fid>>

NetNext ==
    \/ RemoveInteraction
    \/ JSetValue

NetSpec == NetInit /\ [][NetNext]_vars

\* ------------------------------------------------------------ the fidelity
\* (model.py, _fidelity_with_ptrace, _fidelity_no_ptrace and
\* QubitNetworkModel.fidelity).  A ket is in big real form, the real parts
\* followed by the imaginary parts.  Amplitudes are integers in units of
\* 1/AmplitudeOne: a normalized ket has squared norm AmplitudeOne^2 and the
\* fidelity 1.0 is FidelityOne.  The networks have one system qubit.

AmplitudeOne == 5
FidelityOne == AmplitudeOne * AmplitudeOne * AmplitudeOne * AmplitudeOne

\* num_qubits - num_system_qubits
AncillaeNumbers == {0, 1}

\* the values of the only parameter J, the coefficient of sigma_x on the
\* system qubit, and the target gates
Angles == {"0", "pi/2"}
Gates == {"identity", "sigmax"}

RECURSIVE Pow2(_)
Pow2(n) == IF n = 0 THEN 1 ELSE 2 * Pow2(n - 1)

\* the pairs of amplitudes a ket is made of: the normalized ones whose
\* first amplitude is not negative, and two that are not normalized
AmplitudePairs ==
    {p \in (0..AmplitudeOne) \X (-AmplitudeOne..AmplitudeOne) :
        p[1] * p[1] + p[2] * p[2] = AmplitudeOne * AmplitudeOne}
    \cup {<<1, 2>>, <<2, -1>>}

\* the kets of n real numbers with at most two numbers that are not zero
Kets(n) ==
    {[x \in 1..n |-> IF x = ij[1] THEN p[1] ELSE IF x = ij[2] THEN p[2] ELSE 0] :
        ij \in {ij \in (1..n) \X (1..n) : ij[1] < ij[2]},
        p \in AmplitudePairs}

\* T.dot of two vectors of the same length
RECURSIVE DotTo(_, _, _)
DotTo(a, b, n) == IF n = 0 THEN 0 ELSE a[n] * b[n] + DotTo(a, b, n - 1)
Dot(a, b) == DotTo(a, b, Len(a))

\* the squared norm of a ket
Norm2(ket) == Dot(ket, ket)

\* qutip.rand_ket_haar: the normalized kets over the system qubit
SystemKets == {k \in Kets(4) : Norm2(k) = AmplitudeOne * AmplitudeOne}

\* _split_bigreal_ket: <<ket_real, ket_imag>>
SplitBigrealKet(ket) ==
    <<SubSeq(ket, 1, Len(ket) \div 2),
      SubSeq(ket, (Len(ket) \div 2) + 1, Len(ket))>>

\* _ket_to_dm: real and imaginary part of the density matrix of a ket
KetToDm(ket) ==
    LET ket_real == SplitBigrealKet(ket)[1]
        ket_imag == SplitBigrealKet(ket)[2]
        n == Len(ket_real)
    IN  [real |-> [r \in 1..n |-> [c \in 1..n |->
                      ket_real[r] * ket_real[c] + ket_imag[r] * ket_imag[c]]],
         imag |-> [r \in 1..n |-> [c \in 1..n |->
                      ket_imag[r] * ket_real[c] - ket_real[r] * ket_imag[c]]]]

\* the trace of the k by k submatrix of matrix that starts after row r0 and
\* column c0
RECURSIVE BlockTrace(_, _, _, _)
BlockTrace(matrix, r0, c0, k) ==
    IF k = 0 THEN 0
    ELSE matrix[r0 + k][c0 + k] + BlockTrace(matrix, r0, c0, k - 1)

\* _compute_fidelities_col_fn
ComputeFidelitiesColFn(col_idx, row_idx, matrix, num_ancillae) ==
    BlockTrace(matrix, row_idx * Pow2(num_ancillae),
               col_idx * Pow2(num_ancillae), Pow2(num_ancillae))

\* _compute_fidelities_row_fn
ComputeFidelitiesRowFn(row_idx, matrix, num_ancillae) ==
    [col \in 1..(Len(matrix[1]) \div Pow2(num_ancillae)) |->
        ComputeFidelitiesColFn(col - 1, row_idx, matrix, num_ancillae)]

\* _fidelity_with_ptrace: the scan that traces the ancillae out of matrix
PartialTrace(matrix, num_ancillae) ==
    [row \in 1..(Len(matrix) \div Pow2(num_ancillae)) |->
        ComputeFidelitiesRowFn(row - 1, matrix, num_ancillae)]

\* psi.T.dot(big_dm).dot(psi_tilde)
BilinearForm(psi, big_dm, psi_tilde) ==
    Dot([c \in 1..Len(psi_tilde) |->
            Dot(psi, [r \in 1..Len(psi) |-> big_dm[r][c]])],
        psi_tilde)

\* a _fidelity_with_ptrace whose big_dm has dm_real_traced in both
\* off-diagonal blocks
FidelityWithPtrace_SameSignBlocks(state, target, num_ancillae) ==
    LET dm_real_traced == PartialTrace(KetToDm(state).real, num_ancillae)
        dm_imag_traced == PartialTrace(KetToDm(state).imag, num_ancillae)
        n == Len(dm_real_traced)
        target_real == SplitBigrealKet(target)[1]
        target_imag == SplitBigrealKet(target)[2]
        psi_tilde == [x \in 1..Len(target_imag) |-> -target_imag[x]]
                         \o target_real
        big_dm == [r \in 1..(2 * n) |-> [c \in 1..(2 * n) |->
                      IF r <= n
                      THEN IF c <= n THEN dm_imag_traced[r][c]
                           ELSE dm_real_traced[r][c - n]
                      ELSE IF c <= n THEN dm_real_traced[r - n][c]
                           ELSE dm_imag_traced[r - n][c - n]]]
    IN  BilinearForm(target, big_dm, psi_tilde)

\* _fidelity_with_ptrace(i, matrix, target_states, num_ancillae) for
\* state = matrix[i] and target = target_states[i]
FidelityWithPtrace(state, target, num_ancillae) ==
    LET dm_real_traced == PartialTrace(KetToDm(state).real, num_ancillae)
        dm_imag_traced == PartialTrace(KetToDm(state).imag, num_ancillae)
        n == Len(dm_real_traced)
        target_real == SplitBigrealKet(target)[1]
        target_imag == SplitBigrealKet(target)[2]
        psi_tilde == [x \in 1..Len(target_imag) |-> -target_imag[x]]
                         \o target_real
        big_dm == [r \in 1..(2 * n) |-> [c \in 1..(2 * n) |->
                      IF r <= n
                      THEN IF c <= n THEN dm_imag_traced[r][c]
                           ELSE dm_real_traced[r][c - n]
                      ELSE IF c <= n THEN -dm_real_traced[r - n][c]
                           ELSE dm_imag_traced[r - n][c - n]]]
    IN  BilinearForm(target, big_dm, psi_tilde)

\* a _fidelity_no_ptrace whose fidelity_imag adds its two products
FidelityNoPtrace_ImagSum(state, target) ==
    LET state_real == SplitBigrealKet(state)[1]
        state_imag == SplitBigrealKet(state)[2]
        target_state_real == SplitBigrealKet(target)[1]
        target_state_imag == SplitBigrealKet(target)[2]
        fidelity_real == Dot(state_real, target_state_real)
                           + Dot(state_imag, target_state_imag)
        fidelity_imag == Dot(state_real, target_state_imag)
                           + Dot(state_imag, target_state_real)
    IN  fidelity_real * fidelity_real + fidelity_imag * fidelity_imag

\* _fidelity_no_ptrace(i, states, target_states) for state = states[i] and
\* target = target_states[i]
FidelityNoPtrace(state, target) ==
    LET state_real == SplitBigrealKet(state)[1]
        state_imag == SplitBigrealKet(state)[2]
        target_state_real == SplitBigrealKet(target)[1]
        target_state_imag == SplitBigrealKet(target)[2]
        fidelity_real == Dot(state_real, target_state_real)
                           + Dot(state_imag, target_state_imag)
        fidelity_imag == Dot(state_real, target_state_imag)
                           - Dot(state_imag, target_state_real)
    IN  fidelity_real * fidelity_real + fidelity_imag * fidelity_imag

\* a generate_training_states that computes tensor(ancillae_state, ket)
TensorAncillae_AncillaFirst(ket, num_ancillae) ==
    LET half(v) ==
            [x \in 1..(Len(v) * Pow2(num_ancillae)) |->
                IF (x - 1) \div Len(v) = 0
                THEN v[((x - 1) % Len(v)) + 1] ELSE 0]
    IN  IF num_ancillae = 0 THEN ket
        ELSE half(SplitBigrealKet(ket)[1]) \o half(SplitBigrealKet(ket)[2])

\* one half of complex2bigreal(qutip.tensor(ket, ancillae_state)) for the
\* default ancillae state |0...0>: entry s * 2^num_ancillae + a is v[s] for
\* a = 0 and zero otherwise
TensorHalf(v, num_ancillae) ==
    [x \in 1..(Len(v) * Pow2(num_ancillae)) |->
        IF (x - 1) % Pow2(num_ancillae) = 0
        THEN v[((x - 1) \div Pow2(num_ancillae)) + 1] ELSE 0]

\* generate_training_states, step 3: the training input for system ket ket
TensorAncillae(ket, num_ancillae) ==
    IF num_ancillae = 0 THEN ket
    ELSE TensorHalf(SplitBigrealKet(ket)[1], num_ancillae)
         \o TensorHalf(SplitBigrealKet(ket)[2], num_ancillae)

\* sigma_x on the system qubit: the two halves of the amplitudes change
\* places
FlipSystem(v) ==
    [x \in 1..Len(v) |->
        v[IF x <= Len(v) \div 2 THEN x + Len(v) \div 2 ELSE x - Len(v) \div 2]]

\* _target_outputs_from_inputs: target_gate * psi
TargetOutputsFromInputs(target_gate, psi) ==
    IF target_gate = "identity" THEN psi
    ELSE FlipSystem(SplitBigrealKet(psi)[1])
         \o FlipSystem(SplitBigrealKet(psi)[2])

\* fidelity: tensordot(compute_evolution_matrix(), inputs).  expm of the
\* zero matrix is the identity; expm(-i pi/2 sigma_x) is -i sigma_x, which
\* maps the amplitude a + ib of one basis state to b - ia of the other
OutputStates(J, inputs) ==
    IF J = "0" THEN inputs
    ELSE FlipSystem(SplitBigrealKet(inputs)[2])
         \o [x \in 1..(Len(inputs) \div 2) |->
                -FlipSystem(SplitBigrealKet(inputs)[1])[x]]

\* direct calls of the two fidelity functions on an evolved ket of the
\* whole network and a target ket of the system qubit
FidelityCalls ==
    UNION {{[kind |-> "call", num_ancillae |-> na, parameters |-> "0",
             target_gate |-> "identity", inputs |-> << >>, outputs |-> o,
             targets |-> t, done |-> {}, exc |-> "none",
             with_ptrace |-> 0, no_ptrace |-> 0, fidelity |-> 0] :
               o \in Kets(4 * Pow2(na)), t \in Kets(4)} :
           na \in AncillaeNumbers}

\* a network with parameters J and the training state that
\* generate_training_states makes of a random system ket
NetworkEvaluations ==
    {[kind |-> "net", num_ancillae |-> na, parameters |-> J,
      target_gate |-> g, inputs |-> TensorAncillae(psi, na),
      outputs |-> << >>, targets |-> TargetOutputsFromInputs(g, psi),
      done |-> {}, exc |-> "none",
      with_ptrace |-> 0, no_ptrace |-> 0, fidelity |-> 0] :
        na \in AncillaeNumbers, J \in Angles, g \in Gates,
        psi \in SystemKets}

FidelityInit ==
    /\ NoOptimizer
    /\ net = NoNet
    /\ sgd = NoUpdates
    /\ model = NoModel
    /\ fid \in FidelityCalls \cup NetworkEvaluations

\* _fidelity_with_ptrace is applied to the two kets
CallFidelityWithPtrace ==
    /\ fid.kind = "call"
    /\ "with_ptrace" \notin fid.done
    /\ fid' = [fid EXCEPT
                 !.done = @ \cup {"with_ptrace"},
                 !.with_ptrace = FidelityWithPtrace(fid.outputs, fid.targets,
                                                    fid.num_ancillae)]
    /\ UNCHANGED <<optvars, net, sgd, model>>

\* _fidelity_no_ptrace is applied to the two kets; T.dot raises ValueError
\* for vectors of different lengths
CallFidelityNoPtrace ==
    /\ fid.kind = "call"
    /\ "no_ptrace" \notin fid.done
    /\ fid' = IF Len(fid.outputs) = Len(fid.targets)
              THEN [fid EXCEPT
                      !.done = @ \cup {"no_ptrace"},
                      !.no_ptrace = FidelityNoPtrace(fid.outputs, fid.targets)]
              ELSE [fid EXCEPT !.done = @ \cup {"no_ptrace"},
                               !.exc = "ValueError"]
    /\ UNCHANGED <<optvars, net, sgd, model>>

\* the graph of QubitNetworkModel.fidelity is evaluated on the training
\* state: the ancillae decide which of the two functions computes it
Fidelity ==
    /\ fid.kind = "net"
    /\ "fidelity" \notin fid.done
    /\ fid' = [fid EXCEPT
                 !.done = @ \cup {"fidelity"},
                 !.outputs = OutputStates(fid.parameters, fid.inputs),
                 !.fidelity =
                     IF fid.num_ancillae > 0
                     THEN FidelityWithPtrace(
                              OutputStates(fid.parameters, fid.inputs),
                              fid.targets, fid.num_ancillae)
                     ELSE FidelityNoPtrace(
                              OutputStates(fid.parameters, fid.inputs),
                              fid.targets)]
    /\ UNCHANGED <<optvars, net, sgd, model>>

FidelityNext ==
    \/ CallFidelityWithPtrace
    \/ CallFidelityNoPtrace
    \/ Fidelity

FidelitySpec == FidelityInit /\ [][FidelityNext]_vars

\* ---------------------------------------------------------- the target gate
\* (model.py, QubitNetworkModel.__init__, _set_initial_values,
\* generate_training_states and fidelity_test, Optimizer.__init__ and run;
\* QubitNetwork.py, generate_training_data and test_fidelity).  The
\* Optimizer is constructed for one epoch of one mini-batch.

\* the initial_values arguments: None, a number, a dict of (symbol, value)
\* items, where "J3" is not a parameter of the model, or an array
InitialValuesArgs ==
    {[kind |-> "None", number |-> 0, dict |-> << >>, array |-> << >>]}
    \cup {[kind |-> "number", number |-> v, dict |-> << >>,
           array |-> << >>] : v \in {0, 2}}
    \cup {[kind |-> "dict", number |-> 0, dict |-> d, array |-> << >>] :
              d \in {<< >>, <<<<"J2", 2>>>>, <<<<"J3", 2>>>>}}
    \cup {[kind |-> "array", number |-> 0, dict |-> << >>,
           array |-> <<2, 2>>]}

\* the vectors np.random.randn(len(self.free_parameters)) is taken to
\* return (it returns 0.0 with probability 0)
RandnVectors == {<<1, -1>>, <<-2, 1>>}

\* _set_initial_values: init_values after the loop over the items d of the
\* dict, or << >> when a symbol matches no parameter (KeyError)
RECURSIVE SetDictValues(_, _)
SetDictValues(d, init_values) ==
    IF d = << >> THEN init_values
    ELSE IF Head(d)[1] \notin SeqSet(FreeParameters) THEN << >>
    ELSE SetDictValues(Tail(d),
             [init_values EXCEPT ![IndexOf(FreeParameters, Head(d)[1])] =
                                     Head(d)[2]])

\* _set_initial_values(values): the exception raised and the vector returned
SetInitialValues(values, randn) ==
    IF values.kind = "None"
    THEN [exc |-> "none", initial_values |-> randn]
    ELSE IF values.kind = "number"
    THEN [exc |-> "none",
          initial_values |-> [i \in 1..Len(FreeParameters) |-> values.number]]
    ELSE IF values.kind = "dict"
    THEN IF SetDictValues(values.dict, Zeros(Len(FreeParameters))) = << >>
         THEN [exc |-> "ValueError", initial_values |-> << >>]
         ELSE [exc |-> "none",
               initial_values |->
                   SetDictValues(values.dict, Zeros(Len(FreeParameters)))]
    ELSE [exc |-> "none", initial_values |-> values.array]

\* nothing was returned by a call / no Optimizer was given a target gate
NoCallMade ==
    [returned |-> "none", given |-> "unset"]

\* QubitNetworkModel.__init__(initial_values, target_gate), where randn is
\* the vector np.random.randn returns; build_theano_graph sets the
\* parameters to the initial values
QubitNetworkModelInit(initial_values, target_gate, randn) ==
    LET set == SetInitialValues(initial_values, randn)
    IN  [status |-> IF set.exc = "none" THEN "constructed" ELSE "failed",
         exc |-> set.exc,
         initial_values |-> set.initial_values,
         parameters |-> set.initial_values,
         target_gate |-> IF set.exc = "none" THEN target_gate ELSE "None",
         args |-> [initial_values |-> initial_values.kind,
                   target_gate |-> target_gate],
         returned |-> NoCallMade.returned,
         given |-> NoCallMade.given]

\* Optimizer.__init__(net, target_gate): self.net.target_gate = target_gate
OptimizerNet(m, target_gate) ==
    [m EXCEPT !.target_gate = target_gate, !.given = target_gate]

\* QubitNetwork.__init__(..., target_gate): the attribute that
\* generate_training_data and test_fidelity read
QubitNetworkTarget(target_gate) ==
    [status |-> "constructed", exc |-> "none", target_gate |-> target_gate,
     target_gate_arg |-> "None", returned |-> "none"]

\* the hyperparameters of an Optimizer for one epoch of one mini-batch
OneBatchHyperpars ==
    {h \in HyperparSets :
        h.n_epochs = 1 /\ h.train_dataset_size = 1 /\ h.batch_size = 1}

ModelInit ==
    /\ NoOptimizer
    /\ sgd = NoUpdates
    /\ fid = NoFidelity
    /\ \E iv \in InitialValuesArgs, g \in TargetGates, randn \in RandnVectors :
           model = QubitNetworkModelInit(iv, g, randn)
    /\ \E g \in TargetGates : net = QubitNetworkTarget(g)

\* Optimizer(net, ..., target_gate) is constructed on the model
OptimizerInit ==
    /\ pc = "idle"
    /\ phase = "none"
    /\ model.status = "constructed"
    /\ \E target_gate \in TargetGates :
           model' = OptimizerNet(model, target_gate)
    /\ last_call' = "__init__"
    /\ exc' = "none"
    /\ hyperpars' \in OneBatchHyperpars
    /\ learning_rate' = hyperpars'.initial_learning_rate
    /\ parameters' \in InitialValues
    /\ phase' = "constructed"
    /\ UNCHANGED <<pc, args, train_inputs, test_inputs, compiled, log,
                   minibatch_index, fidelity, file, loaded, gen_count, steps,
                   evals, recorded, interrupted_at>>
    /\ UNCHANGED <<net, sgd, fid>>

\* model.generate_training_states(num_states) is called directly
GenerateTrainingStates ==
    /\ pc = "idle"
    /\ model.status = "constructed"
    /\ last_call' = "generate_training_states"
    /\ exc' = GenerateExc
    /\ model' = [model EXCEPT
                   !.returned = IF GenerateExc = "none" THEN "data"
                                ELSE "none"]
    /\ UNCHANGED <<pc, args, hyperpars, learning_rate, parameters,
                   train_inputs, test_inputs, compiled, log, minibatch_index,
                   fidelity, file, phase, loaded, gen_count, steps, evals,
                   recorded, interrupted_at>>
    /\ UNCHANGED <<net, sgd, fid>>

\* model.fidelity_test() is called
FidelityTest ==
    /\ pc = "idle"
    /\ model.status = "constructed"
    /\ last_call' = "fidelity_test"
    /\ exc' = IF model.target_gate = "None" THEN "TargetGateNotGivenError"
              ELSE "none"
    /\ model' = [model EXCEPT
                   !.returned = IF model.target_gate = "None" THEN "none"
                                ELSE "fidelity"]
    /\ UNCHANGED <<pc, args, hyperpars, learning_rate, parameters,
                   train_inputs, test_inputs, compiled, log, minibatch_index,
                   fidelity, file, phase, loaded, gen_count, steps, evals,
                   recorded, interrupted_at>>
    /\ UNCHANGED <<net, sgd, fid>>

\* QubitNetwork.generate_training_data(target_gate) is called
GenerateTrainingData ==
    /\ pc = "idle"
    /\ net.status = "constructed"
    /\ last_call' = "generate_training_data"
    /\ \E target_gate \in TargetGates :
         /\ exc' = IF target_gate = "None" /\ net.target_gate = "None"
                   THEN "ValueError" ELSE "none"
         /\ net' = [net EXCEPT
                      !.target_gate_arg = target_gate,
                      !.returned =
                          IF target_gate = "None" /\ net.target_gate = "None"
                          THEN "none" ELSE "data"]
    /\ UNCHANGED <<pc, args, hyperpars, learning_rate, parameters,
                   train_inputs, test_inputs, compiled, log, minibatch_index,
                   fidelity, file, phase, loaded, gen_count, steps, evals,
                   recorded, interrupted_at>>
    /\ UNCHANGED <<model, sgd, fid>>

\* QubitNetwork.test_fidelity(target_gate=target_gate) is called
TestFidelity ==
    /\ pc = "idle"
    /\ net.status = "constructed"
    /\ last_call' = "test_fidelity"
    /\ \E target_gate \in TargetGates :
         /\ exc' = IF target_gate = "None" /\ net.target_gate = "None"
                   THEN "ValueError" ELSE "none"
         /\ net' = [net EXCEPT
                      !.target_gate_arg = target_gate,
                      !.returned =
                          IF target_gate = "None" /\ net.target_gate = "None"
                          THEN "none" ELSE "fidelity"]
    /\ UNCHANGED <<pc, args, hyperpars, learning_rate, parameters,
                   train_inputs, test_inputs, compiled, log, minibatch_index,
                   fidelity, file, phase, loaded, gen_count, steps, evals,
                   recorded, interrupted_at>>
    /\ UNCHANGED <<model, sgd, fid>>

ModelNext ==
    \/ OptimizerInit
    \/ GenerateTrainingStates
    \/ FidelityTest
    \/ GenerateTrainingData
    \/ TestFidelity
    \/ Run
    \/ RunStep
    \/ KeyboardInterrupt

ModelSpec == ModelInit /\ [][ModelNext]_vars

\* =================================================================== claims

\* the optimizer object is the one that was constructed and run (not one
\* rebuilt by load)
SameObject == phase \in {"constructed", "ran", "saved"}

\* run has returned to its caller
RunReturned == pc = "idle" /\ last_call = "run"

\* the run ended by itself, without a user abort
RunCompleted == RunReturned /\ interrupted_at = "none"

\* number of gradient steps recorded for epoch e
StepsOf(e) == Cardinality({i \in 1..Len(steps) : steps[i].epoch = e})

\* C1: after a run with epoch budget n in which no test fidelity equals 1.0,
\* the fidelity sequence of the log, and the one _get_meaningful_history
\* returns, have length exactly n; after an early stop at 0-based epoch e
\* the truncated sequence has length e + 1.
C1_LogLength ==
    RunCompleted =>
        IF \A i \in 1..Len(log.fidelities) : log.fidelities[i] # One
        THEN /\ Len(log.fidelities) = hyperpars.n_epochs
             /\ Len(GetMeaningfulHistory(log).fidelities) = hyperpars.n_epochs
        ELSE Len(GetMeaningfulHistory(log).fidelities) = log.n_epoch + 1

\* C2: once the test fidelity of an epoch equals 1.0 the run stops at once:
\* no training data is generated, no gradient step or test evaluation is
\* executed and the learning rate is not set after that epoch, and the log
\* entries after it stay zero.
C2_StopsImmediately ==
    SameObject =>
        \A i \in 1..Len(log.fidelities) :
            (log.fidelities[i] = One /\ (i - 1) \in recorded.fidelities) =>
                /\ pc \in {"update_fig", "check_fidelity", "run_save", "idle"}
                /\ log.n_epoch = i - 1
                /\ train_inputs.epoch = i - 1
                /\ gen_count = i + 1
                /\ \A k \in 1..Len(steps) : steps[k].epoch <= i - 1
                /\ Len(evals) = i
                /\ RatEq(learning_rate,
                         IF i = 1 THEN hyperpars.initial_learning_rate
                         ELSE <<hyperpars.initial_learning_rate[1]
                                    * hyperpars.decay_rate[2],
                                hyperpars.initial_learning_rate[2]
                                    * (hyperpars.decay_rate[2]
                                       + hyperpars.decay_rate[1] * (i - 2))>>)
                /\ \A j \in (i + 1)..Len(log.fidelities) :
                       log.fidelities[j] = 0 /\ log.parameters[j] = 0

\* C2 witness: a run that converged before its last epoch has returned
C2_Witness ==
    /\ RunCompleted
    /\ log.fidelities[log.n_epoch + 1] = One
    /\ log.n_epoch >= 1
    /\ log.n_epoch + 1 < hyperpars.n_epochs

\* C3 (as claimed): a recorded fidelity within 1e-10 of 1.0 stops the run,
\* so the learning-rate update is never reached after such an epoch.
C3_ToleranceStops ==
    (SameObject /\ pc = "set_learning_rate") =>
        ~(Abs(One - log.fidelities[log.n_epoch + 1]) < Eps)

\* C3 (amended): the run converges at the first epoch whose recorded test
\* fidelity is exactly 1.0; a fidelity that differs from 1.0, however
\* little, does not stop it: the loop goes on to the learning-rate update
\* only after a fidelity different from 1.0, and an uninterrupted run that
\* ends before its budget is used up ends on a fidelity equal to 1.0, all
\* earlier fidelities being different from 1.0.
C3_ExactOneStops ==
    /\ (SameObject /\ pc = "set_learning_rate") =>
           log.fidelities[log.n_epoch + 1] # One
    /\ RunCompleted =>
           /\ log.n_epoch + 1 < hyperpars.n_epochs =>
                  log.fidelities[log.n_epoch + 1] = One
           /\ \A i \in 1..log.n_epoch : log.fidelities[i] # One

\* C3 witness: a run went on after an epoch whose fidelity was within 1e-10
\* of 1.0 without being 1.0
C3_Witness ==
    /\ RunCompleted
    /\ log.n_epoch >= 1
    /\ log.fidelities[1] # One
    /\ Abs(One - log.fidelities[1]) < Eps

\* the gradient steps (positions in steps) of epoch e
StepSet(e) == {i \in 1..Len(steps) : steps[i].epoch = e}

IsPrefix(a, b) == Len(a) <= Len(b) /\ \A i \in 1..Len(a) : a[i] = b[i]

\* C4: when a user abort arrives while _run is executing (save_after=None),
\* run returns without raising and the log is consistent: an epoch index
\* whose parameter row is recorded (is not a zero placeholder) holds the
\* fidelity evaluated for that epoch, and an index whose fidelity is
\* recorded holds the parameter row of that epoch.
C4_AbortKeepsLogConsistent ==
    (RunReturned /\ interrupted_at \in InTry /\ ~args.save_after
        /\ log.fidelities # NoneArr /\ log.parameters # NoneArr) =>
        /\ exc = "none"
        /\ \A i \in 1..Len(log.parameters) :
               (log.parameters[i] # 0 \/ log.fidelities[i] # 0) =>
                   /\ i <= Len(evals)
                   /\ log.fidelities[i] = evals[i].fidelity
                   /\ log.parameters[i] = evals[i].parameters

\* C5 (as claimed): an abort that arrives while mini-batches of epoch e are
\* pending is honoured only at the epoch boundary: when run has returned,
\* all floor(N / B) gradient steps of epoch e have been applied and its
\* fidelity has been written to the log.
C5_OnlyAtEpochBoundaries ==
    (RunReturned /\ interrupted_at = "train_step"
        /\ minibatch_index
             < hyperpars.train_dataset_size \div hyperpars.batch_size) =>
        /\ StepsOf(log.n_epoch)
             = hyperpars.train_dataset_size \div hyperpars.batch_size
        /\ log.n_epoch \in recorded.fidelities

\* C5 (amended): an abort is honoured at the statement where it arrives:
\* when it arrives while mini-batches of epoch e are pending, the run stops
\* with exactly the gradient steps applied so far (fewer than floor(N / B)
\* for epoch e, all floor(N / B) for every earlier epoch), and neither the
\* test evaluation nor a log write of epoch e is executed.
C5_AbortStopsAtOnce ==
    (SameObject /\ interrupted_at = "train_step"
        /\ minibatch_index
             < hyperpars.train_dataset_size \div hyperpars.batch_size) =>
        /\ pc \in {"run_save", "idle"}
        /\ StepsOf(log.n_epoch) = minibatch_index
        /\ \A e \in 0..(log.n_epoch - 1) :
               StepsOf(e)
                 = hyperpars.train_dataset_size \div hyperpars.batch_size
        /\ log.n_epoch \notin recorded.fidelities
        /\ log.n_epoch \notin recorded.parameters
        /\ Len(evals) = log.n_epoch
        /\ log.fidelities[log.n_epoch + 1] = 0
        /\ log.parameters[log.n_epoch + 1] = 0

\* C5 witness: run has returned after an abort that left an epoch with some
\* but not all of its gradient steps applied
C5_Witness ==
    /\ RunReturned
    /\ interrupted_at = "train_step"
    /\ 0 < minibatch_index
    /\ minibatch_index
         < hyperpars.train_dataset_size \div hyperpars.batch_size
    /\ log.n_epoch >= 1

\* C6: the learning rate in effect during the gradient steps of 0-based
\* epoch e equals lr0 / (1 + decay_rate * e).
C6_LearningRateSchedule ==
    \A i \in 1..Len(steps) :
        RatEq(steps[i].learning_rate,
              <<hyperpars.initial_learning_rate[1] * hyperpars.decay_rate[2],
                hyperpars.initial_learning_rate[2]
                    * (hyperpars.decay_rate[2]
                       + hyperpars.decay_rate[1] * steps[i].epoch)>>)

\* C7 (as claimed): the test fidelity of epoch e is computed on test data
\* generated during epoch e.
C7_FreshTestSetPerEpoch ==
    \A i \in 1..Len(evals) : evals[i].data.epoch = evals[i].epoch

\* C7 (amended): one held-out test set is generated per run, by the first
\* data generation of the run, before the first epoch; the test fidelity of
\* every epoch is computed on that same test set, which has
\* test_dataset_size rows.
C7_OneTestSetPerRun ==
    SameObject =>
        \A i \in 1..Len(evals) :
            /\ evals[i].epoch = i - 1
            /\ evals[i].data.gen = 1
            /\ evals[i].data.epoch = -1
            /\ evals[i].data.size = hyperpars.test_dataset_size
            /\ evals[i].data = test_inputs

\* C7 witness: the test fidelity of a second epoch has been evaluated
C7_Witness == Len(evals) >= 2 /\ evals[2].epoch = 1

\* C8 (as claimed): at the end of the gradient steps of an epoch every one
\* of the N training samples belongs to exactly one mini-batch that was
\* used for a gradient step.
C8_BatchesCoverAllSamples ==
    (SameObject /\ pc = "test_model") =>
        \A r \in 0..(hyperpars.train_dataset_size - 1) :
            Cardinality({i \in StepSet(log.n_epoch) : r \in steps[i].rows}) = 1

\* C8 (amended): in each epoch exactly floor(N / B) gradient steps are
\* applied, step i on rows i*B .. (i+1)*B - 1 of the training set generated
\* for that epoch; each of the first floor(N / B) * B samples belongs to
\* exactly one mini-batch and the last N mod B samples to none.
C8_FloorBatches ==
    (SameObject /\ pc = "test_model") =>
        LET N == hyperpars.train_dataset_size
            B == hyperpars.batch_size
            S == StepSet(log.n_epoch)
        IN  /\ Cardinality(S) = N \div B
            /\ {steps[i].index : i \in S} = 0..((N \div B) - 1)
            /\ \A i \in S :
                   /\ steps[i].rows
                        = (steps[i].index * B)..((steps[i].index + 1) * B - 1)
                   /\ steps[i].data = train_inputs
                   /\ steps[i].data.epoch = log.n_epoch
                   /\ steps[i].data.size = N
            /\ \A r \in 0..(N - 1) :
                   Cardinality({i \in S : r \in steps[i].rows})
                     = IF r < (N \div B) * B THEN 1 ELSE 0

\* C8 witness: the gradient steps of an epoch are done for a training set
\* whose size is not a multiple of the batch size
C8_Witness ==
    /\ pc = "test_model"
    /\ hyperpars.train_dataset_size % hyperpars.batch_size # 0
    /\ StepSet(log.n_epoch) # {}

\* C9: _get_meaningful_history removes only a trailing run of fidelities
\* within 1e-10 of 1.0 or a trailing run of zero entries, and returns the
\* whole log when the fidelity sequence has no transition.
C9_TruncationRemovesOnlyTrailingRun ==
    (RunReturned /\ log.fidelities # NoneArr) =>
        LET fids == log.fidelities
            kept == Len(GetMeaningfulHistory(log).fidelities)
            removed == (kept + 1)..Len(fids)
        IN  /\ \/ \A i \in removed : Abs(One - fids[i]) < Eps
               \/ \A i \in removed : fids[i] = 0
            /\ (/\ \A i \in 1..(Len(fids) - 1) :
                      (Abs(One - fids[i]) < Eps) = (Abs(One - fids[i + 1]) < Eps)
                /\ \A i \in 1..(Len(fids) - 1) :
                      (fids[i] = 0) = (fids[i + 1] = 0))
               => kept = Len(fids)

\* C10: Optimizer.load followed at once by save_results writes a record
\* whose final_interactions equal those of the loaded record and whose log
\* is equal to, or a prefix of, the loaded log.
C10_LoadSaveRoundTrip ==
    /\ (phase = "loaded" /\ last_call = "save_results") => exc = "none"
    /\ phase = "resaved" =>
           /\ file[1].final_interactions = loaded[1].final_interactions
           /\ IsPrefix(file[1].log.fidelities, loaded[1].log.fidelities)
           /\ IsPrefix(file[1].log.parameters, loaded[1].log.parameters)


\* C11: when run is called with save_after (not None), then after the epoch
\* loop has ended (budget used up, convergence or a user abort inside the
\* loop) run returns without raising and the results are saved to the file.
C11_SaveAfterPersists ==
    (RunReturned /\ args.save_after /\ interrupted_at \in InTry \cup {"none"}) =>
        /\ exc = "none"
        /\ file # << >>

\* C12: save_parameters controls the parameter history: after a run with
\* save_parameters=True the log holds one parameter row per epoch (the row
\* of every executed epoch being the parameters evaluated in that epoch);
\* after a run with save_parameters=False log['parameters'] is still None.
C12_SaveParametersControlsHistory ==
    RunCompleted =>
        IF args.save_parameters
        THEN /\ log.parameters # NoneArr
             /\ Len(log.parameters) = hyperpars.n_epochs
             /\ \A e \in 0..log.n_epoch :
                    log.parameters[e + 1] = evals[e + 1].parameters
        ELSE log.parameters = NoneArr

\* the parameters after the last gradient step executed in epochs 0..e
\* (the initial parameters when there was none)
ParametersAfterEpoch(e) ==
    LET S == {k \in 1..Len(steps) : steps[k].epoch <= e}
    IN  IF S = {} THEN CHOOSE p0 \in InitialValues : TRUE
        ELSE steps[SetMax(S)].after

\* C13: within one run the events of an epoch are strictly ordered: the
\* training-data refill, then the gradient steps for the mini-batch indices
\* 0, 1, ..., k-1 in increasing order, then exactly one test evaluation,
\* whose fidelity is written at log index = epoch index together with the
\* parameter vector as it is after the epoch's last gradient step; no
\* gradient step of epoch e+1 happens before the log write of epoch e.
C13_EpochEventsOrdered ==
    SameObject =>
        /\ \A k \in 1..Len(steps) :
               /\ steps[k].data.epoch = steps[k].epoch
               /\ steps[k].index
                    = Cardinality({j \in 1..(k - 1) :
                                       steps[j].epoch = steps[k].epoch})
               /\ k > 1 => steps[k - 1].epoch <= steps[k].epoch
               /\ steps[k].epoch >= 1 =>
                      /\ (steps[k].epoch - 1) \in recorded.fidelities
                      /\ (steps[k].epoch - 1) \in recorded.parameters
                      /\ Len(evals) >= steps[k].epoch
        /\ Len(evals) <= log.n_epoch + 1
        /\ \A i \in 1..Len(evals) :
               /\ evals[i].epoch = i - 1
               /\ StepsOf(i - 1) = hyperpars.train_dataset_size
                                     \div hyperpars.batch_size
               /\ evals[i].parameters = ParametersAfterEpoch(i - 1)
        /\ \A e \in recorded.fidelities :
               /\ e + 1 <= Len(evals)
               /\ e \in recorded.parameters
               /\ log.fidelities[e + 1] = evals[e + 1].fidelity
               /\ log.parameters[e + 1] = ParametersAfterEpoch(e)
        /\ pc \in {"update_fig", "check_fidelity", "set_learning_rate"} =>
               log.n_epoch \in recorded.fidelities

\* C13 witness: the second epoch, which had at least two gradient steps, has
\* been evaluated and logged
C13_Witness ==
    /\ SameObject
    /\ 1 \in recorded.fidelities
    /\ StepsOf(1) >= 2
    /\ StepsOf(0) >= 2

\* C14: at every epoch the training set is generated anew before the epoch's
\* first gradient step and replaces the whole training data: every gradient
\* step of epoch e uses the data set generated in epoch e (N rows), never
\* one generated in an earlier epoch.
C14_FreshTrainingSetPerEpoch ==
    SameObject =>
        /\ \A k \in 1..Len(steps) :
               /\ steps[k].data.epoch = steps[k].epoch
               /\ steps[k].data.gen = steps[k].epoch + 2
               /\ steps[k].data.size = hyperpars.train_dataset_size
               /\ \A j \in 1..Len(steps) :
                      (steps[j].data.gen = steps[k].data.gen)
                          = (steps[j].epoch = steps[k].epoch)
        /\ pc \in {"train_step", "test_model"} =>
               /\ train_inputs.epoch = log.n_epoch
               /\ train_inputs.gen = gen_count

\* C14 witness: gradient steps were executed in three epochs
C14_Witness ==
    /\ SameObject
    /\ \E k \in 1..Len(steps) : steps[k].epoch = 2

\* C15 (as claimed): every call of generate_training_states happens after
\* _compile_model has completed: while the functions are not compiled no
\* data set has been generated.
C15_NoDataBeforeCompile ==
    (SameObject /\ ~compiled) => gen_count = 0

\* C15 (amended): when the train and test functions are compiled no training
\* data has been generated yet, and the test set has been generated, by the
\* one generate_training_states call that precedes _compile_model; every
\* generation of training data happens after _compile_model has completed.
C15_OnlyTestDataBeforeCompile ==
    SameObject =>
        /\ ~compiled =>
               /\ gen_count <= 1
               /\ train_inputs = NoData
               /\ steps = << >>
        /\ pc = "compile" =>
               /\ gen_count = 1
               /\ test_inputs.gen = 1
               /\ test_inputs.size = hyperpars.test_dataset_size
        /\ compiled => test_inputs.gen = 1
        /\ train_inputs # NoData => (compiled /\ train_inputs.gen >= 2)

\* C15 witness: training data has been generated after the compilation
C15_Witness ==
    /\ SameObject
    /\ compiled
    /\ train_inputs.gen = 2
    /\ test_inputs.gen = 1

\* C16: a run with epoch budget n always terminates; when it was not aborted
\* it has executed at most n epochs, and exactly n epochs when no epoch's
\* test fidelity equals 1.0.
C16_RunTerminates ==
    /\ [](RunCompleted =>
            /\ Len(evals) = log.n_epoch + 1
            /\ Len(evals) <= hyperpars.n_epochs
            /\ (\A i \in 1..Len(evals) : evals[i].fidelity # One) =>
                   Len(evals) = hyperpars.n_epochs)
    /\ [](Running => <>(pc = "idle"))

\* C16 witness: an uninterrupted run has returned after using up a budget of
\* more than one epoch without reaching fidelity 1.0
C16_Witness ==
    /\ RunCompleted
    /\ Len(evals) = hyperpars.n_epochs
    /\ hyperpars.n_epochs >= 2
    /\ \A i \in 1..Len(evals) : evals[i].fidelity # One

TermsOf(d, s) == {d[k][1] : k \in {i \in 1..Len(d) : d[i][2] = s}}

\* the i-th symbol of topology d in lexicographic order of the names: the
\* one that has exactly i - 1 symbols of d before it
NthSymbol(d, i) ==
    CHOOSE s \in SeqSet(Values(d)) :
        Cardinality({x \in SeqSet(Values(d)) : x < s}) = i - 1

\* a network that was constructed with a net_topology
TopologyNet == net.status = "constructed" /\ net.net_topology # NoTopology

\* C18: with a net_topology, J has exactly as many entries as there are
\* distinct symbols, and in the Hamiltonian assembled from J every
\* interaction mapped to symbol s has the coefficient J[index(s)] (an
\* interaction outside the topology has none); changing J[index(s)] by d
\* changes the coefficient of each interaction mapped to s by d and that of
\* no other interaction.
C18_SharedSymbolSharedCoefficient ==
    TopologyNet =>
        LET d == net.net_topology
            syms == SeqSet(Values(d))
            Index(s) == Cardinality({x \in syms : x <= s})
            H == BuildHFactors(net)
        IN  /\ Len(net.J) = Cardinality(syms)
            /\ H.exc = "none"
            /\ \A t \in Interactions :
                   H.H[t] = IF t \in SeqSet(Keys(d))
                            THEN net.J[Index(Lookup(d, t))] ELSE 0
            /\ \A s \in syms, delta \in {-1, 1, 2} :
                   LET H2 == BuildHFactors(
                                 [net EXCEPT !.J[Index(s)] = @ + delta])
                   IN  \A t \in Interactions :
                           H2.H[t] - H.H[t] = IF t \in TermsOf(d, s)
                                              THEN delta ELSE 0

\* C18 witness: a topology that maps two interactions to symbol 'a' and one
\* to symbol 'b', with different values of the two parameters
C18_Witness ==
    /\ TopologyNet
    /\ Cardinality(TermsOf(net.net_topology, 1)) = 2
    /\ Cardinality(TermsOf(net.net_topology, 2)) = 1
    /\ Len(net.J) = 2
    /\ net.J[1] # net.J[2]

\* C19: the i-th entry of J refers to the i-th symbol in lexicographic order
\* of the symbol names, whatever the insertion order of the net_topology
\* dict, and build_H_factors, J_index_to_interaction and
\* get_interactions_with_Js use this same mapping in every reachable state
\* of the network, also after remove_interaction calls.
C19_JIndexIsLexicographicRank ==
    TopologyNet =>
        LET d == net.net_topology
        IN  /\ Len(net.J) = NumSymbols(d)
            /\ Len(GetInteractionsWithJs(net)) = Len(net.J)
            /\ \A i \in 1..Len(net.J) :
                   /\ SeqSet(JIndexToInteraction(net, i))
                        = TermsOf(d, NthSymbol(d, i))
                   /\ SeqSet(GetInteractionsWithJs(net)[i][1])
                        = TermsOf(d, NthSymbol(d, i))
                   /\ GetInteractionsWithJs(net)[i][2] = net.J[i]
                   /\ \A t \in TermsOf(d, NthSymbol(d, i)) :
                          /\ Factors(net)[i][t] = 1
                          /\ \A k \in 1..Len(net.J) :
                                 k # i => Factors(net)[k][t] = 0
                          /\ BuildHFactors(net).H[t] = net.J[i]

\* C19 witness: a topology whose first inserted symbol is not the first in
\* lexicographic order, after a remove_interaction call that removed an
\* interaction
C19_Witness ==
    /\ TopologyNet
    /\ net.exc = "none"
    /\ Len(net.net_topology) < Len(net.interactions)
    /\ net.net_topology[1][2] = 2
    /\ NumSymbols(net.net_topology) = 2
    /\ net.J[1] # net.J[2]

\* C20: after a QubitNetwork has been constructed successfully, for any
\* combination of the interactions, net_topology and J arguments, the length
\* of J equals num_interactions (a J of another length is rejected by the
\* constructor).
C20_JLengthIsNumInteractions ==
    net.status = "constructed" => Len(net.J) = net.num_interactions

\* C21: constructing a QubitNetwork without net_topology and with an
\* interactions argument that is none of 'all', a tuple ('all', directions)
\* and a list raises ValueError and produces no network.
C21_UnsupportedInteractionsRejected ==
    (net.status # "none" /\ ~net.args.net_topology
        /\ net.args.interactions \notin {"all", "all_directions", "list"}) =>
        /\ net.status = "failed"
        /\ net.exc = "ValueError"

\* the lengths of the interactions that carry the idx-th symbol of network n
LensOf(n, idx) ==
    {InteractionLen(t) :
        t \in SeqSet(InteractionsOf(n.net_topology,
                                    n.net_topology_symbols[idx]))}

\* C27: with a topology, get_interactions_with_Js(renormalize_parameters=
\* True) reports the coefficient of a symbol whose interactions are all
\* pairwise as 4 J, of one whose interactions are all self-interactions as
\* 2 J, and of one that mixes both as J itself.
C27_RenormalizedCoefficients ==
    TopologyNet =>
        \A idx \in 1..Len(net.net_topology_symbols) :
            GetInteractionsWithJsRenormalized(net)[idx][2]
                = (IF LensOf(net, idx) = {2} THEN 4
                   ELSE IF LensOf(net, idx) = {1} THEN 2
                   ELSE 1) * net.J[idx]

\* the interactions network n holds
ActiveInteractions(n) ==
    IF n.net_topology = NoTopology THEN SeqSet(n.interactions)
    ELSE SeqSet(Keys(n.net_topology))

\* the number of coefficients network n needs: one per interaction, or one
\* per distinct symbol of its topology
NumParameters(n) ==
    IF n.net_topology = NoTopology THEN Len(n.interactions)
    ELSE Cardinality(SeqSet(Values(n.net_topology)))

\* C28: remove_interaction(t), for an interaction t the network holds,
\* removes t and leaves J with exactly one entry per remaining interaction
\* (no topology) or per remaining distinct symbol (topology).
C28_RemoveKeepsJAligned ==
    [][\A t \in Interactions :
           (/\ net.status = "constructed"
            /\ t \in ActiveInteractions(net)
            /\ Len(net.J) = NumParameters(net)
            /\ net' = RemoveInteractionResult(net, t)) =>
               /\ t \notin ActiveInteractions(net')
               /\ Len(net'.J) = NumParameters(net')
               /\ net'.exc = "none"]_vars

\* both fidelity functions have been applied to the kets of fid
BothApplied ==
    /\ fid.kind = "call"
    /\ fid.done = {"with_ptrace", "no_ptrace"}
    /\ fid.exc = "none"

\* C23: without ancillae, _fidelity_with_ptrace and _fidelity_no_ptrace
\* return the same value for every output ket and target ket of equal
\* length.
C23_PtraceEqualsNoPtrace ==
    (BothApplied /\ fid.num_ancillae = 0) => fid.with_ptrace = fid.no_ptrace

\* both functions were applied to an output ket and a target ket that have
\* real and imaginary amplitudes and are neither equal nor orthogonal
C23_Witness ==
    /\ BothApplied
    /\ fid.num_ancillae = 0
    /\ fid.with_ptrace = fid.no_ptrace
    /\ fid.with_ptrace \notin {0, FidelityOne}
    /\ Norm2(SplitBigrealKet(fid.outputs)[2]) > 0
    /\ Norm2(SplitBigrealKet(fid.outputs)[1]) > 0
    /\ Norm2(SplitBigrealKet(fid.targets)[2]) > 0
    /\ Norm2(SplitBigrealKet(fid.targets)[1]) > 0

\* the fidelity of a network whose parameters are all zero has been
\* evaluated on a training state whose target is the input ket itself
IdentityEvaluated ==
    /\ fid.kind = "net"
    /\ fid.parameters = "0"
    /\ fid.target_gate = "identity"
    /\ "fidelity" \in fid.done

\* C24: with all J = 0, the fidelity of the output for a normalized system
\* ket psi, padded with the ancillae in |0...0>, against the target psi is
\* 1, with and without ancillae.
C24_IdentityEvolutionFidelityOne ==
    IdentityEvaluated => fid.fidelity = FidelityOne

\* the fidelity 1 was computed with the partial trace over one ancilla for a
\* ket that is a superposition with a complex amplitude
C24_Witness ==
    /\ IdentityEvaluated
    /\ fid.num_ancillae = 1
    /\ fid.fidelity = FidelityOne
    /\ Len(fid.outputs) = 2 * Len(fid.targets)
    /\ fid.targets[1] # 0
    /\ fid.targets[4] # 0

\* the kets of fid are normalized
UnitKets ==
    /\ fid.kind # "none"
    /\ Norm2(fid.outputs) = AmplitudeOne * AmplitudeOne
    /\ Norm2(fid.targets) = AmplitudeOne * AmplitudeOne

\* C25: for a normalized output ket and a normalized target ket the fidelity
\* computed by either function lies between 0 and 1.
C25_FidelityInUnitInterval ==
    (UnitKets /\ fid.done # {} /\ fid.exc = "none") =>
        /\ "with_ptrace" \in fid.done =>
               (0 <= fid.with_ptrace /\ fid.with_ptrace <= FidelityOne)
        /\ "no_ptrace" \in fid.done =>
               (0 <= fid.no_ptrace /\ fid.no_ptrace <= FidelityOne)
        /\ "fidelity" \in fid.done =>
               (0 <= fid.fidelity /\ fid.fidelity <= FidelityOne)

\* a fidelity strictly between 0 and 1 was computed by the partial trace of
\* an entangled output ket against a target with an imaginary amplitude
C25_Witness ==
    /\ UnitKets
    /\ fid.kind = "call"
    /\ fid.num_ancillae = 1
    /\ "with_ptrace" \in fid.done
    /\ 0 < fid.with_ptrace
    /\ fid.with_ptrace < FidelityOne
    /\ fid.outputs[1] # 0
    /\ fid.outputs[4] # 0
    /\ Norm2(SplitBigrealKet(fid.targets)[2]) > 0

\* C26: an adadelta step is computed from the gradient of that step's own
\* mini-batch, scaled by sqrt(E[step^2] + eps) / sqrt(E[grad^2] + eps), and
\* goes uphill: a step with a gradient that is not zero, the very first one
\* included, changes the parameters in the direction of that gradient.
C26_AdadeltaStepFollowsGradient ==
    (sgd.status = "built" /\ sgd.n_steps >= 1) =>
        /\ sgd.params_step.sign = -Sign(sgd.grad)
        /\ sgd.params_step.square
             = ParamsStep(sgd.before.rparams2, sgd.before.rgrads2,
                          sgd.grad).square

\* the exceptions the operations raise for a missing target gate
MissingTargetErrors ==
    {"AssertionError", "TargetGateNotGivenError", "ValueError"}

\* C22: generate_training_states and fidelity_test of a QubitNetworkModel,
\* and generate_training_data and test_fidelity of a QubitNetwork, fail with
\* a missing-target error and return nothing when no target gate is set;
\* raised inside Optimizer.run, the error ends run and reaches the caller.
C22_MissingTargetFails ==
    /\ (last_call \in {"generate_training_states", "fidelity_test"}
            /\ model.target_gate = "None") =>
           (exc \in MissingTargetErrors /\ model.returned = "none")
    /\ (last_call \in {"generate_training_data", "test_fidelity"}
            /\ net.target_gate = "None" /\ net.target_gate_arg = "None") =>
           (exc \in MissingTargetErrors /\ net.returned = "none")
    /\ (last_call = "run" /\ model.target_gate = "None"
            /\ interrupted_at = "none") =>
           /\ pc \in {"run_args", "refill_test", "idle"}
           /\ pc = "idle" => exc = "AssertionError"
           /\ gen_count = 0
           /\ test_inputs = NoData
           /\ train_inputs = NoData

\* run has ended with the AssertionError of generate_training_states
C22_Witness ==
    /\ last_call = "run"
    /\ pc = "idle"
    /\ model.target_gate = "None"
    /\ interrupted_at = "none"
    /\ exc = "AssertionError"
    /\ gen_count = 0

\* C29: a QubitNetworkModel constructed with initial_values=None has all its
\* trainable parameters initialized to zero.
C29_DefaultInitialValuesZero ==
    (model.status = "constructed" /\ model.args.initial_values = "None") =>
        /\ model.initial_values = Zeros(Len(FreeParameters))
        /\ model.parameters = Zeros(Len(FreeParameters))

\* C30: constructing an Optimizer without a target_gate leaves the target
\* gate of the network as it was, so that a run that follows can generate
\* its training data.
C30_OptimizerKeepsTargetGate ==
    (model.status = "constructed" /\ model.given = "None") =>
        /\ model.target_gate = model.args.target_gate
        /\ (model.args.target_gate # "None" /\ last_call = "run"
                /\ pc = "idle" /\ interrupted_at = "none") =>
               (exc # "AssertionError" /\ gen_count > 0)

====
